---- MODULE Spec2Model ----
(***************************************************************************)
(* Plinko provably-fair engine: the commit / start / reveal / verify       *)
(* routes over the round table, the Xorshift32 generator and its seeding,  *)
(* and the board simulation (createPegMap, calculatePath, runPlinkoGame).  *)
(*                                                                         *)
(* Representation.                                                         *)
(*  - A JavaScript string is a sequence of character codes (all texts of   *)
(*    the model are ASCII, so UTF-8 bytes and UTF-16 code units coincide). *)
(*  - An unsigned 32-bit integer is a pair <<hi, lo>> of 16-bit halves,    *)
(*    value hi * 65536 + lo (TLC integers are 32-bit signed).              *)
(*  - A draw rand() = state / 2^32 is represented by its numerator, the    *)
(*    32-bit word itself.                                                  *)
(*  - A peg bias (a double with at most 6 decimals) is an integer number   *)
(*    of millionths.                                                       *)
(***************************************************************************)
EXTENDS Integers, Sequences, FiniteSets, TLC

(***************************************************************************)
(* 16-bit and 32-bit word arithmetic.                                      *)
(***************************************************************************)
Pow2(n) == 2 ^ n

Min(a, b) == IF a < b THEN a ELSE b

Half == 2 ^ 16

\* Op(v), with v evaluated once, before Op: v is bound as the element of a
\* one-element set.
With(v, Op(_)) == CHOOSE result \in {Op(x) : x \in {v}} : TRUE

\* Bit i (0 = least significant) of the non-negative integer a.
Bit(a, i) == (a \div (2 ^ i)) % 2

Xor4 == [a \in 0..15 |-> [b \in 0..15 |->
           ((Bit(a, 0) + Bit(b, 0)) % 2)
         + 2 * ((Bit(a, 1) + Bit(b, 1)) % 2)
         + 4 * ((Bit(a, 2) + Bit(b, 2)) % 2)
         + 8 * ((Bit(a, 3) + Bit(b, 3)) % 2)]]

And4 == [a \in 0..15 |-> [b \in 0..15 |->
           (Bit(a, 0) * Bit(b, 0))
         + 2 * (Bit(a, 1) * Bit(b, 1))
         + 4 * (Bit(a, 2) * Bit(b, 2))
         + 8 * (Bit(a, 3) * Bit(b, 3))]]

\* Bitwise exclusive or / and of two 16-bit values, nibble by nibble.
Xor16(a, b) ==
      Xor4[a % 16][b % 16]
    + 16 * Xor4[(a \div 16) % 16][(b \div 16) % 16]
    + 256 * Xor4[(a \div 256) % 16][(b \div 256) % 16]
    + 4096 * Xor4[a \div 4096][b \div 4096]

And16(a, b) ==
      And4[a % 16][b % 16]
    + 16 * And4[(a \div 16) % 16][(b \div 16) % 16]
    + 256 * And4[(a \div 256) % 16][(b \div 256) % 16]
    + 4096 * And4[a \div 4096][b \div 4096]

Word32 == (0..65535) \X (0..65535)

IsUint32(w) == /\ w[1] \in 0..65535
               /\ w[2] \in 0..65535

Xor32(a, b) == <<Xor16(a[1], b[1]), Xor16(a[2], b[2])>>

And32(a, b) == <<And16(a[1], b[1]), And16(a[2], b[2])>>

Not32(a) == <<65535 - a[1], 65535 - a[2]>>

Add32(a, b) ==
    LET lo == a[2] + b[2]
    IN  <<(a[1] + b[1] + lo \div Half) % Half, lo % Half>>

\* (w << n) truncated to 32 bits, 0 <= n < 32.
Shl32(w, n) ==
    IF n >= 16
    THEN <<(w[2] * Pow2(n - 16)) % Half, 0>>
    ELSE <<((w[1] % Pow2(16 - n)) * Pow2(n) + w[2] \div Pow2(16 - n)) % Half,
           (w[2] % Pow2(16 - n)) * Pow2(n)>>

\* (w >>> n), the logical shift, 0 <= n < 32.
Shr32(w, n) ==
    IF n >= 16
    THEN <<0, w[1] \div Pow2(n - 16)>>
    ELSE <<w[1] \div Pow2(n),
           w[2] \div Pow2(n) + (w[1] % Pow2(n)) * Pow2(16 - n)>>

Rotr32(w, n) ==
    IF n >= 16
    THEN LET s == <<w[2], w[1]>>
             m == n - 16
         IN  <<s[1] \div Pow2(m) + (s[2] % Pow2(m)) * Pow2(16 - m),
               s[2] \div Pow2(m) + (s[1] % Pow2(m)) * Pow2(16 - m)>>
    ELSE <<w[1] \div Pow2(n) + (w[2] % Pow2(n)) * Pow2(16 - n),
           w[2] \div Pow2(n) + (w[1] % Pow2(n)) * Pow2(16 - n)>>

(***************************************************************************)
(* SHA-256 (FIPS 180-4) over a sequence of bytes, as computed by           *)
(* createHash("sha256").update(str).digest("hex").                         *)
(***************************************************************************)
ShaK == <<
 <<17034,12184>>, <<28983,17553>>, <<46528,64463>>, <<59829,56229>>,
 <<14678,49755>>, <<23025,4593>>,  <<37439,33444>>, <<43804,24277>>,
 <<55303,43672>>, <<4739,23297>>,  <<9265,34238>>,  <<21772,32195>>,
 <<29374,23924>>, <<32990,45566>>, <<39900,1703>>,  <<49563,61812>>,
 <<58523,27073>>, <<61374,18310>>, <<4033,40390>>,  <<9228,41420>>,
 <<11753,11375>>, <<19060,33962>>, <<23728,43484>>, <<30457,35034>>,
 <<38974,20818>>, <<43057,50797>>, <<45059,10184>>, <<48985,32711>>,
 <<50912,3059>>,  <<54695,37191>>, <<1738,25425>>,  <<5161,10599>>,
 <<10167,2693>>,  <<11803,8504>>,  <<19756,28156>>, <<21304,3347>>,
 <<25866,29524>>, <<30314,2747>>,  <<33218,51502>>, <<37490,11397>>,
 <<41663,59553>>, <<43034,26187>>, <<49739,35696>>, <<51052,20899>>,
 <<53650,59417>>, <<54937,1572>>,  <<62478,13701>>, <<4202,41072>>,
 <<6564,49430>>,  <<7735,27656>>,  <<10056,30540>>, <<13488,48309>>,
 <<14620,3251>>,  <<20184,43594>>, <<23452,51791>>, <<26670,28659>>,
 <<29839,33518>>, <<30885,25455>>, <<33992,30740>>, <<36039,520>>,
 <<37054,65530>>, <<42064,27883>>, <<48889,41975>>, <<50801,30962>> >>

ShaH0 == <<
 <<27145,58983>>, <<47975,44677>>, <<15470,62322>>, <<42319,62778>>,
 <<20750,21119>>, <<39685,26764>>, <<8067,55723>>,  <<23520,52505>> >>

ShaPadZeros(len) == (119 - (len % 64)) % 64

\* The 8 bytes of the message length in bits, big-endian (len < 2^24 bytes).
ShaLenBytes(len) ==
    <<0, 0, 0, 0, 0,
      (len * 8) \div 65536, ((len * 8) \div 256) % 256, (len * 8) % 256>>

ShaPad(msg) ==
    msg \o <<128>> \o [i \in 1..ShaPadZeros(Len(msg)) |-> 0] \o ShaLenBytes(Len(msg))

\* Word t (0-based) of block b (0-based) of the padded message.
ShaBlockWord(padded, b, t) ==
    LET o == 64 * b + 4 * t
    IN  <<padded[o + 1] * 256 + padded[o + 2], padded[o + 3] * 256 + padded[o + 4]>>

ShaSmallSigma0(x) == Xor32(Xor32(Rotr32(x, 7), Rotr32(x, 18)), Shr32(x, 3))
ShaSmallSigma1(x) == Xor32(Xor32(Rotr32(x, 17), Rotr32(x, 19)), Shr32(x, 10))
ShaBigSigma0(x) == Xor32(Xor32(Rotr32(x, 2), Rotr32(x, 13)), Rotr32(x, 22))
ShaBigSigma1(x) == Xor32(Xor32(Rotr32(x, 6), Rotr32(x, 11)), Rotr32(x, 25))
ShaCh(x, y, z) == Xor32(And32(x, y), And32(Not32(x), z))
ShaMaj(x, y, z) == Xor32(Xor32(And32(x, y), And32(x, z)), And32(y, z))

\* Left fold of Op over t = lo..hi starting from init (init when hi < lo).
\* Each value folded so far is bound as an element of a one-element set, so
\* that it is evaluated once, before Op is evaluated on it.
FoldRange(Op(_, _), init, lo, hi) ==
    CHOOSE result \in
        {LET F[t \in (lo - 1)..hi] ==
                 IF t < lo THEN first
                 ELSE CHOOSE next \in {Op(prev, t) : prev \in {F[t - 1]}} : TRUE
         IN  F[hi] : first \in {init}} : TRUE

\* The message schedule extended by word t (0-based) of block b.
ShaScheduleStep(padded, b, w, t) ==
    Append(w,
           IF t < 16
           THEN ShaBlockWord(padded, b, t)
           ELSE Add32(Add32(ShaSmallSigma1(w[t - 1]), w[t - 6]),
                      Add32(ShaSmallSigma0(w[t - 14]), w[t - 15])))

\* The message schedule W[1..64] of block b, built left to right.
ShaSchedule(padded, b) ==
    FoldRange(LAMBDA w8, g :
                  FoldRange(LAMBDA w, t : ShaScheduleStep(padded, b, w, t),
                            w8, 8 * g, 8 * g + 7),
              <<>>, 0, 7)

\* Round t (1-based) of the compression function on v = <<a, ..., h>>.
ShaRound(v, w, t) ==
    With(<<Add32(Add32(Add32(v[8], ShaBigSigma1(v[5])),
                       Add32(ShaCh(v[5], v[6], v[7]), ShaK[t])), w[t]),
           Add32(ShaBigSigma0(v[1]), ShaMaj(v[1], v[2], v[3]))>>,
         LAMBDA t12 :
        <<Add32(t12[1], t12[2]), v[1], v[2], v[3], Add32(v[4], t12[1]),
          v[5], v[6], v[7]>>)

\* The Len(w) = 64 rounds of the compression function, from hash value h.
ShaRounds(h, w) ==
    FoldRange(LAMBDA v8, g :
                  FoldRange(LAMBDA v, t : ShaRound(v, w, t), v8, 8 * g + 1, 8 * g + 8),
              h, 0, (Len(w) \div 8) - 1)

\* The hash value after block b (0-based) of the padded message.
ShaBlock(padded, h, b) ==
    With(ShaSchedule(padded, b), LAMBDA w :
    With(ShaRounds(h, w), LAMBDA v :
        <<Add32(h[1], v[1]), Add32(h[2], v[2]), Add32(h[3], v[3]), Add32(h[4], v[4]),
          Add32(h[5], v[5]), Add32(h[6], v[6]), Add32(h[7], v[7]), Add32(h[8], v[8])>>))

ShaBlocks(padded) ==
    LET n == Len(padded) \div 64
    IN  FoldRange(LAMBDA h8, g :
                      FoldRange(LAMBDA h, b : ShaBlock(padded, h, b),
                                h8, 8 * g, Min(8 * g + 7, n - 1)),
                  ShaH0, 0, (n - 1) \div 8)

\* Lower-case hexadecimal digit of n in 0..15, as a character code.
HexChar(n) == IF n < 10 THEN 48 + n ELSE 87 + n

\* The 4 hexadecimal characters of a 16-bit value.
Hex16(x) == <<HexChar(x \div 4096), HexChar((x \div 256) % 16),
              HexChar((x \div 16) % 16), HexChar(x % 16)>>

\* The SHA-256 digest of the bytes of input, as 64 lower-case hex characters.
Sha256Digest(input) ==
    With(input, LAMBDA msg :
    With(ShaPad(msg), LAMBDA padded :
    With(ShaBlocks(padded), LAMBDA h :
        FoldRange(LAMBDA hex, i : hex \o Hex16(h[i][1]) \o Hex16(h[i][2]),
                  <<>>, 1, Len(h)))))

(***************************************************************************)
(* utils/prng.ts                                                           *)
(***************************************************************************)
\* seed >>> 0 for a JavaScript number seed.  An integer seed is written
\* <<hi, lo>> with value hi * 65536 + lo, 0 <= lo < 65536 and hi any integer
\* (negative, or beyond 16 bits, for a number outside the unsigned 32-bit
\* range); the string "NaN" stands for NaN, which ToUint32 maps to 0.
ToUint32(seed) ==
    IF seed = "NaN" THEN <<0, 0>> ELSE <<seed[1] % Half, seed[2]>>

\* A constructor without the fallback to 1: seed >>> 0.
Xorshift32NoFallback(seed) == ToUint32(seed)

\* new Xorshift32(seed): the initial state, (seed >>> 0) || 1.
Xorshift32(seed) ==
    IF ToUint32(seed) = <<0, 0>> THEN <<0, 1>> ELSE ToUint32(seed)

\* A step whose right shift is the sign-propagating x >> 17: the 17 high
\* bits of the shifted value are copies of bit 31.
nextIntSignedShift(state) ==
    With(state, LAMBDA x :
    With(Xor32(x, Shl32(x, 13)), LAMBDA x1 :
    With(Xor32(x1, IF x1[1] >= 32768
                   THEN <<65535, 32768 + Shr32(x1, 17)[2]>>
                   ELSE Shr32(x1, 17)), LAMBDA x2 :
         Xor32(x2, Shl32(x2, 5)))))

\* Xorshift32.nextInt: the new state, which is also the value returned.
nextInt(state) ==
    With(state, LAMBDA x :
    With(Xor32(x, Shl32(x, 13)), LAMBDA x1 :
    With(Xor32(x1, Shr32(x1, 17)), LAMBDA x2 :
         Xor32(x2, Shl32(x2, 5)))))

\* Xorshift32.rand: the generator after the call, and the value returned as
\* the numerator of value / 2^32.
rand(state) ==
    With(nextInt(state), LAMBDA n : [state |-> n, value |-> n])

\* Value of a hexadecimal digit given as a character code, -1 when the
\* character is no hexadecimal digit.
HexVal(c) ==
    IF c \in 48..57 THEN c - 48
    ELSE IF c \in 97..102 THEN c - 87
    ELSE IF c \in 65..70 THEN c - 55
    ELSE 0 - 1

\* A decoder that reads every pair, a character that is no hexadecimal
\* digit counting as 0.
HexDecodeLenient(str) ==
    [i \in 1..(Len(str) \div 2) |->
        16 * (IF HexVal(str[2 * i - 1]) < 0 THEN 0 ELSE HexVal(str[2 * i - 1]))
        + (IF HexVal(str[2 * i]) < 0 THEN 0 ELSE HexVal(str[2 * i]))]

\* Buffer.from(str, "hex"): bytes of the leading run of complete, valid
\* pairs of hexadecimal digits (decoding stops at the first invalid pair and
\* a trailing single character is dropped).
HexDecode(str) ==
    LET pairs == Len(str) \div 2
        bad == {i \in 1..pairs : HexVal(str[2 * i - 1]) < 0 \/ HexVal(str[2 * i]) < 0}
        n == IF bad = {} THEN pairs
             ELSE (CHOOSE i \in bad : \A j \in bad : i <= j) - 1
    IN  [i \in 1..n |-> 16 * HexVal(str[2 * i - 1]) + HexVal(str[2 * i])]

\* The little-endian read, buf.readUInt32LE(0).
readUInt32LE(buf) == <<buf[4] * 256 + buf[3], buf[2] * 256 + buf[1]>>

\* buf.readUInt32BE(0)
readUInt32BE(buf) == <<buf[1] * 256 + buf[2], buf[3] * 256 + buf[4]>>

\* seedPRNG(combinedSeedHex): ok = FALSE when it throws; otherwise the state
\* of the generator it returns.
seedPRNG(combinedSeedHex) ==
    IF Len(combinedSeedHex) < 8
    THEN [ok |-> FALSE, state |-> <<0, 0>>]
    ELSE With(HexDecode(combinedSeedHex), LAMBDA buf :
             IF Len(buf) < 4
             THEN [ok |-> FALSE, state |-> <<0, 0>>]
             ELSE With(readUInt32BE(buf), LAMBDA seedInt :
                      [ok |-> TRUE, state |-> Xorshift32(seedInt)]))

(***************************************************************************)
(* lib/engine.ts                                                           *)
(***************************************************************************)
GAME_ROWS == 12

\* A JavaScript number the engine computes with: an integer (a count of
\* columns, or a bias in millionths) or NaN.
Num(n) == [nan |-> FALSE, value |-> n]

NaN == [nan |-> TRUE, value |-> 0]

\* States rnd = odd * 2^25 at which 0.5 + (rnd / 2^32 - 0.5) * 0.2 lies, in
\* exact arithmetic, half-way between two 6-decimal values, and the double
\* computed for it lies below the half-way point: toFixed(6) rounds down.
BiasTieDown ==
    {1, 3, 11, 13, 21, 23, 31, 33, 41, 43, 51, 53, 61, 63, 67, 73, 77, 83, 87,
     93, 97, 103, 107, 113, 117, 123, 127}

\* A bias cut to 6 decimals instead of rounded.
LeftBiasTruncated(value) ==
    400000 + ((value[1] * 3125 + ((value[2] * 3125) \div Half)) \div 1024)

\* parseFloat((0.5 + (rnd - 0.5) * 0.2).toFixed(6)) in millionths, for the
\* draw rnd = value / 2^32: 0.4 + value * 0.2 / 2^32 rounded to 6 decimals,
\* that is 400000 + round(value * 3125 / 2^26), half-way cases upward except
\* at the states of BiasTieDown.
LeftBias(value) ==
    LET a == value[1] * 3125
        b == value[2] * 3125 + 2 ^ 25
        k == 400000 + ((a + (b \div Half)) \div 1024)
    IN  IF value[2] = 0 /\ value[1] % 512 = 0 /\ (value[1] \div 512) \in BiasTieDown
        THEN k - 1
        ELSE k

\* One iteration of the inner loop of createPegMap: one draw, one leftBias
\* pushed on the row.  acc = [row, state].
PegStep(acc) ==
    With(rand(acc.state), LAMBDA d :
        [row |-> Append(acc.row, LeftBias(d.value)), state |-> d.state])

\* One iteration of the outer loop of createPegMap, for row r (0-based):
\* pegsInRow = r + 1 draws.  acc = [pegMap, state].
PegRow(acc, r) ==
    With(FoldRange(LAMBDA a, p : PegStep(a),
                   [row |-> <<>>, state |-> acc.state], 0, r), LAMBDA row :
        [pegMap |-> Append(acc.pegMap, row.row), state |-> row.state])

\* createPegMap(prng): the board and the generator state after its draws.
createPegMap(state) ==
    FoldRange(PegRow, [pegMap |-> <<>>, state |-> state], 0, GAME_ROWS - 1)

\* An adjustment of 0.1 per column.
leftBiasAdjTenth(dropColumn) ==
    IF dropColumn.nan THEN NaN
    ELSE Num((dropColumn.value - (GAME_ROWS \div 2)) * 100000)

\* The drop-column adjustment (dropColumn - Math.floor(R / 2)) * 0.01, in
\* millionths, for an integer dropColumn.
leftBiasAdj(dropColumn) ==
    IF dropColumn.nan THEN NaN
    ELSE Num((dropColumn.value - (GAME_ROWS \div 2)) * 10000)

\* peg.leftBias + leftBiasAdj, in millionths.
biasOf(leftBias, adj) == IF adj.nan THEN NaN ELSE Num(leftBias + adj.value)

\* Math.max(0, Math.min(1, bias)), in millionths: NaN for NaN.
finalBias(bias) ==
    IF bias.nan THEN NaN
    ELSE IF bias.value > 1000000 THEN Num(1000000)
    ELSE IF bias.value < 0 THEN Num(0)
    ELSE bias

\* Pairs <<j, dropColumn>> at which the draw rnd = j / 64 equals
\* peg.leftBias + leftBiasAdj in exact arithmetic while the double sum lies
\* above it, so that rnd < finalBias holds in the code: all such pairs, over
\* every integer dropColumn and every leftBias in [0.4, 0.6] (at the other
\* exact ties, j in 0..63, the double sum is the exact one or lies below it).
BiasSumUp ==
    {<<j, -37>> : j \in 5..10} \cup {<<j, -36>> : j \in 6..11}
    \cup {<<j, -25>> : j \in 13..18} \cup {<<j, -24>> : j \in 13..19}
    \cup {<<j, -23>> : j \in 14..19} \cup {<<j, -15>> : j \in 13..15}
    \cup {<<j, -12>> : j \in 21..26}
    \cup {<<j, 0>> : j \in 29..31} \cup {<<j, 1>> : j \in 29..31}
    \cup {<<j, 2>> : j \in 30..31}

\* A comparison rnd <= finalBias: a draw equal to the bias holds.
rndLessOrEqualBias(value, bias, dropColumn) ==
    LET q == (value[1] * 15625 + ((value[2] * 15625) \div Half)) \div 1024
        fb == finalBias(biasOf(bias, leftBiasAdj(dropColumn)))
    IN  /\ ~fb.nan
        /\ \/ q < fb.value
           \/ /\ q = fb.value
              /\ value[2] = 0
              /\ value[1] % 1024 = 0

\* rnd < finalBias for the draw rnd = value / 2^32, the peg's leftBias (in
\* millionths) and dropColumn: floor(value * 10^6 / 2^32) < finalBias, or one
\* of the exact ties of BiasSumUp.
rndLessThanBias(value, bias, dropColumn) ==
    LET q == (value[1] * 15625 + ((value[2] * 15625) \div Half)) \div 1024
        fb == finalBias(biasOf(bias, leftBiasAdj(dropColumn)))
    IN  /\ ~fb.nan
        /\ \/ q < fb.value
           \/ /\ q = fb.value
              /\ value[2] = 0
              /\ value[1] % 1024 = 0
              /\ <<value[1] \div 1024, dropColumn.value>> \in BiasSumUp

\* An iteration that pushes its decision at the front of the path.
PathStepPrepends(acc, pegMap, dropColumn, r) ==
    LET pegIndex == Min(acc.pos, r)
        peg == pegMap[r + 1][pegIndex + 1]
    IN  With(rand(acc.state), LAMBDA d :
        IF rndLessThanBias(d.value, peg, dropColumn)
        THEN [pos |-> acc.pos, path |-> <<"L">> \o acc.path, state |-> d.state]
        ELSE [pos |-> acc.pos + 1, path |-> <<"R">> \o acc.path, state |-> d.state])

\* An iteration that draws a second time after a right move.
PathStepExtraDraw(acc, pegMap, dropColumn, r) ==
    LET pegIndex == Min(acc.pos, r)
        peg == pegMap[r + 1][pegIndex + 1]
    IN  With(rand(acc.state), LAMBDA d :
        IF rndLessThanBias(d.value, peg, dropColumn)
        THEN [pos |-> acc.pos, path |-> Append(acc.path, "L"), state |-> d.state]
        ELSE [pos |-> acc.pos + 1, path |-> Append(acc.path, "R"),
              state |-> rand(d.state).state])

\* An iteration that advances pos on a left move instead of a right move.
PathStepLeftAdvances(acc, pegMap, dropColumn, r) ==
    LET pegIndex == Min(acc.pos, r)
        peg == pegMap[r + 1][pegIndex + 1]
    IN  With(rand(acc.state), LAMBDA d :
        IF rndLessThanBias(d.value, peg, dropColumn)
        THEN [pos |-> acc.pos + 1, path |-> Append(acc.path, "L"), state |-> d.state]
        ELSE [pos |-> acc.pos, path |-> Append(acc.path, "R"), state |-> d.state])

\* An iteration that advances pos by two on a right move.
PathStepAdvancesTwo(acc, pegMap, dropColumn, r) ==
    LET pegIndex == Min(acc.pos, r)
        peg == pegMap[r + 1][pegIndex + 1]
    IN  With(rand(acc.state), LAMBDA d :
        IF rndLessThanBias(d.value, peg, dropColumn)
        THEN [pos |-> acc.pos, path |-> Append(acc.path, "L"), state |-> d.state]
        ELSE [pos |-> acc.pos + 2, path |-> Append(acc.path, "R"), state |-> d.state])

\* One iteration of the loop of calculatePath, for row r (0-based).
\* acc = [pos, path, state].
PathStep(acc, pegMap, dropColumn, r) ==
    LET pegIndex == Min(acc.pos, r)
        peg == pegMap[r + 1][pegIndex + 1]
    IN  With(rand(acc.state), LAMBDA d :
        IF rndLessThanBias(d.value, peg, dropColumn)
        THEN [pos |-> acc.pos, path |-> Append(acc.path, "L"), state |-> d.state]
        ELSE [pos |-> acc.pos + 1, path |-> Append(acc.path, "R"), state |-> d.state])

\* calculatePath(prng, pegMap, dropColumn): the returned object, and the
\* generator state when it returns.
calculatePath(state, pegMap, dropColumn) ==
    With(FoldRange(LAMBDA a, r : PathStep(a, pegMap, dropColumn, r),
                   [pos |-> 0, path |-> <<>>, state |-> state],
                   0, GAME_ROWS - 1), LAMBDA end :
        [binIndex |-> end.pos, path |-> end.path, state |-> end.state])

\* Text of a number 0.dddddd given in millionths (0 < k < 10^6), as
\* JSON.stringify prints it: trailing zeros dropped.
StripZeros(digits) ==
    LET keep == {i \in 1..Len(digits) : \E j \in i..Len(digits) : digits[j] # 48}
    IN  SubSeq(digits, 1, Cardinality(keep))

NumberText(k) ==
    <<48, 46>> \o StripZeros(<<48 + (k \div 100000), 48 + ((k \div 10000) % 10),
                               48 + ((k \div 1000) % 10), 48 + ((k \div 100) % 10),
                               48 + ((k \div 10) % 10), 48 + (k % 10)>>)

\* {"leftBias":
PegOpen == <<123, 34, 108, 101, 102, 116, 66, 105, 97, 115, 34, 58>>

PegText(k) == PegOpen \o NumberText(k) \o <<125>>

\* texts[1], ..., texts[Len(texts)] joined by commas.
JoinTexts(texts) ==
    FoldRange(LAMBDA acc, i : IF i = 1 THEN texts[i] ELSE acc \o <<44>> \o texts[i],
              <<>>, 1, Len(texts))

ArrayText(texts) == <<91>> \o JoinTexts(texts) \o <<93>>

\* JSON.stringify(pegMap)
stringifyPegMap(pegMap) ==
    ArrayText([r \in 1..Len(pegMap) |->
        ArrayText([p \in 1..Len(pegMap[r]) |-> PegText(pegMap[r][p])])])


(***************************************************************************)
(* Inputs of the model: the outcomes of randomBytes in the commit route,   *)
(* and the values clients send.                                            *)
(***************************************************************************)
\* bytes.toString('hex')
ToHexText(bytes) ==
    <<>> \o [i \in 1..(2 * Len(bytes)) |->
                IF i % 2 = 1 THEN HexChar(bytes[(i + 1) \div 2] \div 16)
                             ELSE HexChar(bytes[i \div 2] % 16)]

\* The outcomes of randomBytes(32) and randomBytes(8) the model draws from.
ServerSeedBytes == {[i \in 1..32 |-> (b + 37 * i) % 256] : b \in {178, 9}}
NonceBytes == {[i \in 1..8 |-> (b + 37 * i) % 256] : b \in {66}}

ServerSeeds == {ToHexText(b) : b \in ServerSeedBytes}
Nonces == {ToHexText(b) : b \in NonceBytes}

\* clientSeed values of a start request body: "" and "candidate-hello".
ClientSeeds ==
    {<<>>,
     <<99, 97, 110, 100, 105, 100, 97, 116, 101, 45, 104, 101, 108, 108, 111>>}

\* dropColumn values of a start request body.
DropColumns == {0, 6, 13}

BetCents == {100}

Colon == <<58>>

CommitText(serverSeed, nonce) == serverSeed \o Colon \o nonce

\* The text with no ':' between serverSeed and clientSeed.
CombinedTextOneColon(serverSeed, clientSeed, nonce) ==
    serverSeed \o clientSeed \o Colon \o nonce

CombinedText(serverSeed, clientSeed, nonce) ==
    serverSeed \o Colon \o clientSeed \o Colon \o nonce

(***************************************************************************)
(* State.                                                                  *)
(*  rounds   the Round table: rounds[id] is the record of round id; ids    *)
(*           are 1, 2, ... in creation order.                              *)
(*  reqs     the requests to the commit, start and reveal routes, in       *)
(*           arrival order: position (pc), the record findUnique returned, *)
(*           the data computed from the inputs and the response.           *)
(*  verified the requests to the verify route, in arrival order: the query *)
(*           and the response.                                             *)
(*  gen      a generator under test: the seed it was constructed from, its *)
(*           state, the last value drawn and the number of draws.          *)
(*  seeding  a call of seedPRNG under test: its argument and its result.   *)
(*  game     a run of runPlinkoGame under test, loop iteration by loop     *)
(*           iteration.                                                    *)
(*  page     the game page of one page load: its React state, the fetch    *)
(*           calls it awaits, its pending timeouts and the animation of    *)
(*           its board.                                                    *)
(*  runs     the runs of the pipeline combinedSeedFromParts, seedPRNG,     *)
(*           runPlinkoGame, one after the other: the generator objects     *)
(*           made so far (heap) and, for each run, its inputs, the         *)
(*           generator it holds and what it computed.                      *)
(***************************************************************************)
VARIABLES rounds, reqs, verified, gen, seeding, game, page, runs

vars == <<rounds, reqs, verified, gen, seeding, game, page, runs>>

\* The texts the routes digest for the inputs above.
SeedTexts ==
    {CommitText(s, n) : s \in ServerSeeds, n \in Nonces}
    \cup {CombinedText(s, c, n) : s \in ServerSeeds, c \in ClientSeeds, n \in Nonces}

\* The digests of those texts, computed once.
Digests == [t \in SeedTexts |-> Sha256Digest(t)]

\* sha256(input) of utils/crypto, createHash("sha256").update(str).digest("hex")
sha256(input) ==
    With(input, LAMBDA str :
        IF str \in DOMAIN Digests THEN Digests[str] ELSE Sha256Digest(str))

\* TEST_VECTORS of the test file: serverSeed, nonce "42", clientSeed
\* "candidate-hello", and the commitHex and combinedSeed to match.
ReferenceServerSeed ==
    <<98, 50, 97, 53, 102, 51, 102, 51, 50, 97, 52, 100, 57, 99, 54, 101,
      101, 55, 97, 56, 99, 49, 100, 51, 51, 52, 53, 54, 54, 55, 55, 56,
      57, 48, 97, 98, 99, 100, 101, 102, 102, 101, 100, 99, 98, 97, 48,
      57, 56, 55, 54, 53, 52, 51, 50, 49, 102, 102, 101, 101, 100, 100,
      99, 99>>

ReferenceNonce == <<52, 50>>

ReferenceClientSeed ==
    <<99, 97, 110, 100, 105, 100, 97, 116, 101, 45, 104, 101, 108, 108, 111>>

ReferenceCommitHex ==
    <<98, 98, 57, 97, 99, 100, 99, 54, 55, 102, 51, 102, 49, 56, 102, 51,
      51, 52, 53, 50, 51, 54, 97, 48, 49, 102, 48, 101, 53, 48, 55, 50,
      53, 57, 54, 54, 53, 55, 97, 57, 48, 48, 53, 99, 55, 100, 56, 97, 50,
      50, 99, 102, 102, 48, 54, 49, 52, 53, 49, 97, 54, 98, 51, 52>>

ReferenceCombinedSeed ==
    <<101, 49, 100, 100, 100, 102, 55, 55, 100, 101, 50, 55, 100, 51, 57,
      53, 101, 97, 50, 98, 101, 50, 101, 100, 52, 57, 97, 97, 50, 97, 53,
      57, 98, 100, 54, 98, 102, 49, 50, 101, 101, 56, 100, 51, 53, 48, 99,
      49, 54, 99, 48, 48, 56, 97, 98, 100, 52, 48, 54, 99, 48, 55, 101,
      48>>

\* prngResults of TEST_VECTORS: each number as its first five and its last
\* five decimals.
ReferenceDraws ==
    <<(<<11061, 66649>>), (<<76251, 29214>>), (<<4392, 92176>>),
      (<<45786, 78815>>), (<<34389, 99297>>)>>

\* createPRNG(combinedSeed) of the test: the state of the generator seeded
\* from the reference combined seed.
ReferenceState == seedPRNG(ReferenceCombinedSeed).state

\* The generator states the combined seeds of the inputs give, the fallback
\* state 1 and the state of the reference vector.
SeededStates ==
    {seedPRNG(Digests[CombinedText(s, c, n)]).state :
        s \in ServerSeeds, c \in ClientSeeds, n \in Nonces}
    \cup {<<0, 1>>, ReferenceState}

\* The boards of those generator states and their digests, computed once.
PegMaps == [st \in SeededStates |-> createPegMap(st)]

PegMapHashes ==
    [st \in SeededStates |-> Sha256Digest(stringifyPegMap(PegMaps[st].pegMap))]

\* sha256(JSON.stringify(pegMap))
pegMapHashOf(pegMap) ==
    With(pegMap, LAMBDA map :
        IF \E st \in SeededStates : PegMaps[st].pegMap = map
        THEN PegMapHashes[CHOOSE st \in SeededStates : PegMaps[st].pegMap = map]
        ELSE Sha256Digest(stringifyPegMap(map)))

\* A run that draws once before the board is generated unless the ball is
\* dropped in the middle column.
runPlinkoGameColumnDraw(prng, dropColumn) ==
    With(createPegMap(IF dropColumn = Num(6) THEN prng ELSE nextInt(prng)),
         LAMBDA board :
    With(pegMapHashOf(board.pegMap), LAMBDA pegMapHash :
    With(calculatePath(board.state, board.pegMap, dropColumn), LAMBDA res :
        [pegMap |-> board.pegMap, pegMapHash |-> pegMapHash,
         binIndex |-> res.binIndex, path |-> res.path, state |-> res.state])))

\* runPlinkoGame(prng, dropColumn): the returned object, and the generator
\* state when it returns.
runPlinkoGame(prng, dropColumn) ==
    With(IF prng \in SeededStates THEN PegMaps[prng] ELSE createPegMap(prng),
         LAMBDA board :
    With(pegMapHashOf(board.pegMap), LAMBDA pegMapHash :
    With(calculatePath(board.state, board.pegMap, dropColumn), LAMBDA res :
        [pegMap |-> board.pegMap, pegMapHash |-> pegMapHash,
         binIndex |-> res.binIndex, path |-> res.path, state |-> res.state])))

combinedSeedFromParts(serverSeed, clientSeed, nonce) ==
    sha256(CombinedText(serverSeed, clientSeed, nonce))

\* A commitment that digests the combined text of an empty client seed.
commitHexFromCombined(serverSeed, nonce) ==
    sha256(CombinedText(serverSeed, <<>>, nonce))

commitHexFromParts(serverSeed, nonce) ==
    sha256(CommitText(serverSeed, nonce))

(***************************************************************************)
(* Bounds of the model.                                                    *)
(***************************************************************************)
\* Requests to the commit, start and reveal routes in one behaviour.
MaxRequests == 4
\* Rounds created in one behaviour.
MaxRounds == 1
\* Requests to the verify route in one behaviour.
MaxVerifies == 1

(***************************************************************************)
(* app/api/rounds/commit/route.ts                                          *)
(***************************************************************************)
\* generateRandomString(length): the outcomes the model draws from.
generateRandomString(length) ==
    IF length = 32 THEN ServerSeeds ELSE Nonces

\* The data of prisma.round.create.
NewRound(serverSeed, nonce) ==
    [status |-> "CREATED",
     serverSeed |-> serverSeed,
     nonce |-> nonce,
     commitHex |-> commitHexFromParts(serverSeed, nonce),
     clientSeed |-> <<>>,
     combinedSeed |-> <<>>,
     pegMapHash |-> <<>>,
     rows |-> 12,
     dropColumn |-> 0,
     binIndex |-> 0,
     payoutMultiplier |-> 0,
     betCents |-> 0,
     pathJson |-> <<>>,
     revealedAt |-> FALSE]

\* The JSON body of the commit route's response for the round created.
CommitBody(id, newRound) ==
    [roundId |-> id, commitHex |-> newRound.commitHex]

Response(status, body) == [status |-> status, body |-> body]

ErrorBody(message) == [error |-> message]

\* A commit request, answered: the round it created and its response.
CommitRequest(id, newRound) ==
    [route |-> "commit", roundId |-> id, pc |-> "done",
     round |-> [status |-> "NONE"], data |-> newRound,
     overwrote |-> "NONE",
     response |-> Response(200, CommitBody(id, newRound))]

\* What findUnique returns for an id that is not in the table.
NoRound == [status |-> "NONE"]

NoData == [status |-> "NONE"]

NoResponse == [status |-> 0, body |-> [error |-> "pending"]]

\* POST /api/rounds/commit: the whole handler.
Commit ==
    /\ Len(reqs) < MaxRequests
    /\ Len(rounds) < MaxRounds
    /\ \E serverSeed \in generateRandomString(32), nonce \in generateRandomString(8) :
          \E newRound \in {NewRound(serverSeed, nonce)} :
             LET id == Len(rounds) + 1
             IN  /\ rounds' = Append(rounds, newRound)
                 /\ reqs' = Append(reqs, CommitRequest(id, newRound))
    /\ UNCHANGED <<runs, page, verified, gen, seeding, game>>

(***************************************************************************)
(* app/api/rounds/[id]/start/route.ts                                      *)
(***************************************************************************)
\* PAYOUT_MAP, in tenths.
PAYOUT_MAP == <<100, 50, 20, 15, 10, 5, 2, 5, 10, 15, 20, 50, 100>>

\* A lookup one bin to the right.
PayoutForNextBin(binIndex) ==
    IF binIndex + 1 \in 0..(Len(PAYOUT_MAP) - 1) THEN PAYOUT_MAP[binIndex + 2] ELSE 0

\* PAYOUT_MAP[binIndex] || 0
PayoutFor(binIndex) ==
    IF binIndex \in 0..(Len(PAYOUT_MAP) - 1) THEN PAYOUT_MAP[binIndex + 1] ELSE 0

\* prisma.round.findUnique({ where: { id } })
findUnique(id) == IF id \in DOMAIN rounds THEN rounds[id] ELSE NoRound

\* Steps 5a-5d of the start route: the data of the update, or ok = FALSE
\* when seedPRNG throws.
StartData(round, clientSeed, betCents, dropColumn) ==
    With(combinedSeedFromParts(round.serverSeed, clientSeed, round.nonce),
         LAMBDA combinedSeed :
    With(seedPRNG(combinedSeed), LAMBDA prng :
        IF ~prng.ok THEN [ok |-> FALSE]
        ELSE With(runPlinkoGame(prng.state, Num(dropColumn)), LAMBDA result :
             [ok |-> TRUE,
              status |-> "STARTED",
              clientSeed |-> clientSeed,
              betCents |-> betCents,
              dropColumn |-> dropColumn,
              combinedSeed |-> combinedSeed,
              pegMapHash |-> result.pegMapHash,
              binIndex |-> result.binIndex,
              pathJson |-> result.path,
              payoutMultiplier |-> PayoutFor(result.binIndex)])))

\* An update that leaves pathJson as it was.
StartUpdatedNoPath(round, data) ==
    [round EXCEPT !.status = data.status,
                  !.clientSeed = data.clientSeed,
                  !.betCents = data.betCents,
                  !.dropColumn = data.dropColumn,
                  !.combinedSeed = data.combinedSeed,
                  !.pegMapHash = data.pegMapHash,
                  !.binIndex = data.binIndex,
                  !.payoutMultiplier = data.payoutMultiplier]

\* The record after prisma.round.update of the start route.
StartUpdated(round, data) ==
    [round EXCEPT !.status = data.status,
                  !.clientSeed = data.clientSeed,
                  !.betCents = data.betCents,
                  !.dropColumn = data.dropColumn,
                  !.combinedSeed = data.combinedSeed,
                  !.pegMapHash = data.pegMapHash,
                  !.binIndex = data.binIndex,
                  !.pathJson = data.pathJson,
                  !.payoutMultiplier = data.payoutMultiplier]

\* The JSON body of the start route's response.
StartBody(id, updatedRound) ==
    [roundId |-> id,
     pegMapHash |-> updatedRound.pegMapHash,
     rows |-> updatedRound.rows,
     binIndex |-> updatedRound.binIndex,
     path |-> updatedRound.pathJson,
     payoutMultiplier |-> updatedRound.payoutMultiplier]

\* The status check of the start route: the round can be played.
StartAllowed(round) == round.status = "CREATED"

\* Ids a request may name: the rounds there are, and one that is unknown.
RoundIds == 1..(MaxRounds + 1)

\* A start request from its arrival to its return or to the await of
\* prisma.round.update: findUnique, the checks and the engine.
StartRequest(id, clientSeed, betCents, dropColumn) ==
    LET round == findUnique(id)
        req == [route |-> "start", roundId |-> id, pc |-> "done",
                round |-> round, data |-> NoData,
                overwrote |-> "NONE", response |-> NoResponse]
    IN  IF round.status = "NONE"
        THEN [req EXCEPT !.response = Response(404, ErrorBody("Round not found."))]
        ELSE IF ~StartAllowed(round)
        THEN [req EXCEPT !.response =
                 Response(400, ErrorBody("Round already started or finished."))]
        ELSE IF round.serverSeed = <<>>
        THEN [req EXCEPT !.response =
                 Response(500, ErrorBody("Server seed missing from round."))]
        ELSE With(StartData(round, clientSeed, betCents, dropColumn),
                  LAMBDA data :
                 IF ~data.ok
                 THEN [req EXCEPT !.response =
                          Response(500, ErrorBody("Failed to start round."))]
                 ELSE [req EXCEPT !.pc = "update", !.data = data])

\* POST /api/rounds/[id]/start, from the request to the return or to the
\* await of prisma.round.update.
StartFind ==
    /\ Len(reqs) < MaxRequests
    /\ \E id \in RoundIds, clientSeed \in ClientSeeds, betCents \in BetCents,
          dropColumn \in DropColumns :
          reqs' = Append(reqs, StartRequest(id, clientSeed, betCents, dropColumn))
    /\ UNCHANGED <<runs, page, rounds, verified, gen, seeding, game>>

\* The rest of the start route: prisma.round.update and the response.
StartUpdate ==
    /\ \E i \in DOMAIN reqs :
          /\ reqs[i].route = "start"
          /\ reqs[i].pc = "update"
          /\ LET id == reqs[i].roundId
                 updatedRound == StartUpdated(rounds[id], reqs[i].data)
             IN  /\ rounds' = [rounds EXCEPT ![id] = updatedRound]
                 /\ reqs' = [reqs EXCEPT ![i].pc = "done",
                                         ![i].overwrote = rounds[id].status,
                                         ![i].response =
                                             Response(200, StartBody(id, updatedRound))]
    /\ UNCHANGED <<runs, page, verified, gen, seeding, game>>

(***************************************************************************)
(* app/api/rounds/[id]/reveal/route.ts                                     *)
(***************************************************************************)
\* The select of the reveal route's findUnique.
RevealSelect(round) ==
    IF round.status = "NONE" THEN NoRound
    ELSE [status |-> round.status, serverSeed |-> round.serverSeed,
          nonce |-> round.nonce]

\* A status check that only refuses rounds already revealed.
RevealAllowedNotRevealed(round) == round.status # "REVEALED"

\* The status check of the reveal route: the round can be revealed.
RevealAllowed(round) == round.status = "STARTED"

\* The JSON body of the reveal route's response.
RevealBody(round) == [serverSeed |-> round.serverSeed, nonce |-> round.nonce]

\* A reveal request from its arrival to its return or to the await of
\* prisma.round.update: findUnique and the checks.
RevealRequest(id) ==
    LET round == RevealSelect(findUnique(id))
        req == [route |-> "reveal", roundId |-> id, pc |-> "done",
                round |-> round, data |-> NoData,
                overwrote |-> "NONE", response |-> NoResponse]
    IN  IF round.status = "NONE"
        THEN [req EXCEPT !.response = Response(404, ErrorBody("Round not found."))]
        ELSE IF ~RevealAllowed(round)
        THEN [req EXCEPT !.response =
                 Response(400, ErrorBody("Round is not in a state to be revealed."))]
        ELSE [req EXCEPT !.pc = "update"]

\* POST /api/rounds/[id]/reveal, from the request to the return or to the
\* await of prisma.round.update.
RevealFind ==
    /\ Len(reqs) < MaxRequests
    /\ \E id \in RoundIds :
          reqs' = Append(reqs, RevealRequest(id))
    /\ UNCHANGED <<runs, page, rounds, verified, gen, seeding, game>>

\* The rest of the reveal route: prisma.round.update and the response.
RevealUpdate ==
    /\ \E i \in DOMAIN reqs :
          /\ reqs[i].route = "reveal"
          /\ reqs[i].pc = "update"
          /\ LET id == reqs[i].roundId
             IN  /\ rounds' = [rounds EXCEPT ![id].status = "REVEALED",
                                             ![id].revealedAt = TRUE]
                 /\ reqs' = [reqs EXCEPT ![i].pc = "done",
                                         ![i].overwrote = rounds[id].status,
                                         ![i].response =
                                             Response(200, RevealBody(reqs[i].round))]
    /\ UNCHANGED <<runs, page, verified, gen, seeding, game>>

(***************************************************************************)
(* app/api/verify/route.ts                                                 *)
(***************************************************************************)
\* The names of the query parameters the verify route reads.
QueryNames == {"serverSeed", "clientSeed", "nonce", "dropColumn"}

\* !searchParams.get(name): the parameter is absent (null) or empty.
Falsy(query, name) == name \notin DOMAIN query \/ query[name] = <<>>

IsSpace(c) == c \in {9, 10, 11, 12, 13, 32}

IsDigit(c) == c \in 48..57

\* parseInt(str, 10): leading white space, an optional sign, then the
\* longest run of decimal digits; NaN when there is no digit.
parseInt(str) ==
    LET spaces == Cardinality({i \in 1..Len(str) : \A j \in 1..i : IsSpace(str[j])})
        rest == SubSeq(str, spaces + 1, Len(str))
        signed == rest # <<>> /\ rest[1] \in {43, 45}
        body == SubSeq(rest, IF signed THEN 2 ELSE 1, Len(rest))
        n == Cardinality({i \in 1..Len(body) : \A j \in 1..i : IsDigit(body[j])})
        magnitude == FoldRange(LAMBDA acc, i : acc * 10 + (body[i] - 48), 0, 1, n)
    IN  IF n = 0 THEN [nan |-> TRUE, value |-> 0]
        ELSE [nan |-> FALSE,
              value |-> IF signed /\ rest[1] = 45 THEN 0 - magnitude ELSE magnitude]

isNaN(number) == number.nan

\* A body that publishes the combined seed as the commitment.
VerifyBodyCombinedAsCommit(commitHex, combinedSeed, result) ==
    [commitHex |-> combinedSeed,
     combinedSeed |-> combinedSeed,
     pegMapHash |-> result.pegMapHash,
     binIndex |-> result.binIndex,
     path |-> result.path]

\* The JSON body of the verify route's response.
VerifyBody(commitHex, combinedSeed, result) ==
    [commitHex |-> commitHex,
     combinedSeed |-> combinedSeed,
     pegMapHash |-> result.pegMapHash,
     binIndex |-> result.binIndex,
     path |-> result.path]

\* GET /api/verify: the response to a query.
VerifyResponse(query) ==
    IF \E name \in QueryNames : Falsy(query, name)
    THEN Response(400, ErrorBody("Missing required query parameters."))
    ELSE With(parseInt(query["dropColumn"]), LAMBDA dropColumn :
         IF isNaN(dropColumn)
         THEN Response(400, ErrorBody("Invalid dropColumn."))
         ELSE With(combinedSeedFromParts(query["serverSeed"], query["clientSeed"],
                                         query["nonce"]), LAMBDA combinedSeed :
              With(seedPRNG(combinedSeed), LAMBDA prng :
              IF ~prng.ok
              THEN Response(500, ErrorBody("Failed to re-compute results."))
              ELSE Response(200,
                       VerifyBody(commitHexFromParts(query["serverSeed"], query["nonce"]),
                                  combinedSeed,
                                  runPlinkoGame(prng.state, dropColumn))))))

\* The decimal text of an integer, as typed into the verifier's form.
DecimalText(n) ==
    LET m == IF n < 0 THEN 0 - n ELSE n
        len == CHOOSE k \in 1..10 : m < 10 ^ k /\ (k = 1 \/ 10 ^ (k - 1) <= m)
        digits == [i \in 1..len |-> 48 + ((m \div (10 ^ (len - i))) % 10)]
    IN  IF n < 0 THEN <<45>> \o digits ELSE digits

\* dropColumn texts of a verify query: the columns, "x" and "".
DropColumnTexts == {DecimalText(c) : c \in DropColumns} \cup {<<120>>, <<>>}

CompleteQueries ==
    [serverSeed : ServerSeeds, clientSeed : ClientSeeds, nonce : Nonces,
     dropColumn : DropColumnTexts]

\* The query without the parameter name.
Without(query, name) == [n \in (DOMAIN query) \ {name} |-> query[n]]

\* The queries the model sends: the complete ones and, for the queries of
\* column 6, the ones with one parameter left out.
VerifyQueries ==
    CompleteQueries
    \cup {Without(q, name) : q \in {c \in CompleteQueries : c.dropColumn = <<54>>},
                             name \in QueryNames}

\* A handler that also marks every round REVEALED.
VerifyMarksRounds ==
    /\ Len(verified) < MaxVerifies
    /\ \E query \in VerifyQueries :
          verified' = Append(verified,
                             [query |-> query, response |-> VerifyResponse(query)])
    /\ rounds' = [id \in DOMAIN rounds |-> [rounds[id] EXCEPT !.status = "REVEALED"]]
    /\ UNCHANGED <<runs, page, reqs, gen, seeding, game>>

\* GET /api/verify: the whole handler; it touches no round.
Verify ==
    /\ Len(verified) < MaxVerifies
    /\ \E query \in VerifyQueries :
          verified' = Append(verified,
                             [query |-> query, response |-> VerifyResponse(query)])
    /\ UNCHANGED <<runs, page, rounds, reqs, gen, seeding, game>>

(***************************************************************************)
(* The routes, called in any order and interleaved at their awaits.        *)
(***************************************************************************)
Idle == [status |-> "idle"]

Init ==
    /\ rounds = <<>>
    /\ reqs = <<>>
    /\ verified = <<>>
    /\ gen = Idle
    /\ seeding = Idle
    /\ game = Idle
    /\ page = Idle
    /\ runs = [heap |-> <<>>, list |-> <<>>]

Next ==
    \/ Commit
    \/ StartFind
    \/ StartUpdate
    \/ RevealFind
    \/ RevealUpdate
    \/ Verify

Spec == Init /\ [][Next]_vars

(***************************************************************************)
(* The generator alone: constructed from a seed, then drawn from.          *)
(***************************************************************************)
\* Draws from one generator in one behaviour.
MaxDraws == 16

\* Seeds passed to the constructor: NaN, 0, 1, -1, 2^32, 2^31, 2^32 - 1 and
\* a seed read from a digest.
PrngSeeds ==
    {"NaN", <<0, 0>>, <<0, 1>>, <<0 - 1, Half - 1>>, <<Half, 0>>,
     <<Half \div 2, 0>>, <<Half - 1, Half - 1>>, <<57821, 57207>>}

\* new Xorshift32(seed)
Construct ==
    /\ gen = Idle
    /\ \E seed \in PrngSeeds :
          gen' = [status |-> "live", seed |-> seed, state |-> Xorshift32(seed),
                  before |-> Xorshift32(seed), value |-> <<0, 0>>, draws |-> 0]
    /\ UNCHANGED <<runs, page, rounds, reqs, verified, seeding, game>>

\* prng.rand()
Rand ==
    /\ gen # Idle
    /\ gen.draws < MaxDraws
    /\ LET d == rand(gen.state)
       IN  gen' = [gen EXCEPT !.state = d.state, !.before = gen.state,
                              !.value = d.value, !.draws = gen.draws + 1]
    /\ UNCHANGED <<runs, page, rounds, reqs, verified, seeding, game>>

NextPrng == Construct \/ Rand

SpecPrng == Init /\ [][NextPrng]_vars

(***************************************************************************)
(* seedPRNG alone, called on a text.                                       *)
(***************************************************************************)
\* Beginnings of the texts: up to two characters among '0', 'a' and 'G'.
SeedHeads ==
    {<<>>} \cup {<<a>> : a \in {48, 97, 71}}
    \cup {<<a, b>> : a \in {48, 97, 71}, b \in {48, 97, 71}}

\* Ends of the texts: "", "000000", "00000000", "00000001", "deadbeef",
\* "DEADBEEF00", "12345z", "zz345678ff" and "123456789".
SeedTails ==
    {<<>>,
     <<48, 48, 48, 48, 48, 48>>,
     <<48, 48, 48, 48, 48, 48, 48, 48>>,
     <<48, 48, 48, 48, 48, 48, 48, 49>>,
     <<100, 101, 97, 100, 98, 101, 101, 102>>,
     <<68, 69, 65, 68, 66, 69, 69, 70, 48, 48>>,
     <<49, 50, 51, 52, 53, 122>>,
     <<122, 122, 51, 52, 53, 54, 55, 56, 102, 102>>,
     <<49, 50, 51, 52, 53, 54, 55, 56, 57>>}

\* The texts seedPRNG is called on: head and tail joined, and the combined
\* seeds of the inputs.
SeedInputs ==
    {h \o t : h \in SeedHeads, t \in SeedTails}
    \cup {combinedSeedFromParts(s, c, n) :
            s \in ServerSeeds, c \in ClientSeeds, n \in Nonces}

\* seedPRNG(combinedSeedHex)
SeedCall ==
    /\ \E input \in SeedInputs :
          seeding' = [status |-> "done", input |-> input, result |-> seedPRNG(input)]
    /\ UNCHANGED <<runs, page, rounds, reqs, verified, gen, game>>

NextSeed == SeedCall

SpecSeed == Init /\ [][NextSeed]_vars

(***************************************************************************)
(* runPlinkoGame alone, one loop iteration at a time.                      *)
(***************************************************************************)
\* dropColumn values runPlinkoGame is called with: those of the start
\* requests, two far outside the board, -94 and 106, for which the
\* adjusted bias leaves [0, 1], and NaN, which a start request without a
\* dropColumn gives.
GameColumns == {Num(c) : c \in DropColumns \cup {0 - 94, 106}} \cup {NaN}

\* runPlinkoGame(prng, dropColumn) is called: createPegMap starts.
GameCall ==
    /\ game = Idle
    /\ \E state \in SeededStates, dropColumn \in GameColumns :
          game' = [status |-> "pegs", seed |-> state, dropColumn |-> dropColumn,
                   state |-> state, draws |-> 0, r |-> 0, row |-> <<>>,
                   pegMap |-> <<>>, pegMapHash |-> <<>>, pos |-> 0, path |-> <<>>]
    /\ UNCHANGED <<runs, page, rounds, reqs, verified, gen, seeding>>

\* An inner loop that ends a row one peg early (never before the first).
PegDrawShortRows ==
    /\ game # Idle
    /\ game.status = "pegs"
    /\ LET acc == PegStep([row |-> game.row, state |-> game.state])
           full == Len(acc.row) >= game.r
           last == full /\ game.r + 1 = GAME_ROWS
       IN  game' = [game EXCEPT
                       !.state = acc.state,
                       !.draws = game.draws + 1,
                       !.row = IF full THEN <<>> ELSE acc.row,
                       !.pegMap = IF full THEN Append(game.pegMap, acc.row)
                                  ELSE game.pegMap,
                       !.r = IF last THEN 0 ELSE IF full THEN game.r + 1 ELSE game.r,
                       !.status = IF last THEN "hash" ELSE "pegs"]
    /\ UNCHANGED <<runs, page, rounds, reqs, verified, gen, seeding>>

\* One iteration of the inner loop of createPegMap; the row is pushed on
\* the board when it is complete.
PegDraw ==
    /\ game # Idle
    /\ game.status = "pegs"
    /\ LET acc == PegStep([row |-> game.row, state |-> game.state])
           full == Len(acc.row) = game.r + 1
           last == full /\ game.r + 1 = GAME_ROWS
       IN  game' = [game EXCEPT
                       !.state = acc.state,
                       !.draws = game.draws + 1,
                       !.row = IF full THEN <<>> ELSE acc.row,
                       !.pegMap = IF full THEN Append(game.pegMap, acc.row)
                                  ELSE game.pegMap,
                       !.r = IF last THEN 0 ELSE IF full THEN game.r + 1 ELSE game.r,
                       !.status = IF last THEN "hash" ELSE "pegs"]
    /\ UNCHANGED <<runs, page, rounds, reqs, verified, gen, seeding>>

\* sha256(JSON.stringify(pegMap)); calculatePath starts.
BoardHash ==
    /\ game # Idle
    /\ game.status = "hash"
    /\ game' = [game EXCEPT !.pegMapHash = pegMapHashOf(game.pegMap),
                            !.status = "path"]
    /\ UNCHANGED <<runs, page, rounds, reqs, verified, gen, seeding>>

\* One iteration of the loop of calculatePath; after the last one the game
\* returns.
PathRow ==
    /\ game # Idle
    /\ game.status = "path"
    /\ LET acc == PathStep([pos |-> game.pos, path |-> game.path, state |-> game.state],
                           game.pegMap, game.dropColumn, game.r)
       IN  game' = [game EXCEPT
                       !.state = acc.state,
                       !.draws = game.draws + 1,
                       !.pos = acc.pos,
                       !.path = acc.path,
                       !.r = game.r + 1,
                       !.status = IF game.r + 1 = GAME_ROWS THEN "done" ELSE "path"]
    /\ UNCHANGED <<runs, page, rounds, reqs, verified, gen, seeding>>

\* The object runPlinkoGame returns, once the game is done.
GameResult ==
    [pegMapHash |-> game.pegMapHash, binIndex |-> game.pos, path |-> game.path]

NextGame == GameCall \/ PegDraw \/ BoardHash \/ PathRow

SpecGame == Init /\ [][NextGame]_vars

(***************************************************************************)
(* calculatePath alone, on a board and a generator of the caller: the      *)
(* draws that equal a bias.                                                *)
(***************************************************************************)
\* Generator states whose first or fourth draw is 32/64 (from 2281717760
\* and 335508366) or 29/64 (from 4215306752 and 3710686217).
TieStates ==
    {<<34816, 16384>>, <<5119, 29582>>, <<64320, 31232>>, <<56620, 37897>>}

\* leftBias values (in millionths) that, with the adjustment of column 6 or
\* of column 0, give the bias 32/64 or 29/64.
TieBiases == {500000, 453125, 560000, 513125}

\* Boards of 12 rows whose pegs all have the same leftBias.
TieBoards ==
    {[r \in 1..GAME_ROWS |-> [p \in 1..r |-> leftBias]] : leftBias \in TieBiases}

\* dropColumn values of these calls.
TieColumns == {Num(0), Num(6)}

\* calculatePath(prng, pegMap, dropColumn) is called.
PathCall ==
    /\ game = Idle
    /\ \E state \in TieStates, pegMap \in TieBoards, dropColumn \in TieColumns :
          game' = [status |-> "path", seed |-> state, dropColumn |-> dropColumn,
                   state |-> state, draws |-> 0, r |-> 0, row |-> <<>>,
                   pegMap |-> pegMap, pegMapHash |-> <<>>, pos |-> 0, path |-> <<>>]
    /\ UNCHANGED <<runs, page, rounds, reqs, verified, gen, seeding>>

NextPath == GameCall \/ PegDraw \/ BoardHash \/ PathRow \/ PathCall

SpecPath == Init /\ [][NextPath]_vars

(***************************************************************************)
(* The routes: requests of one round.                                      *)
(***************************************************************************)
\* The start requests of round id that wrote their update.
StartsPersisted(id) ==
    {i \in DOMAIN reqs :
        reqs[i].route = "start" /\ reqs[i].roundId = id /\ reqs[i].overwrote # "NONE"}

\* C1: for every round, at most one start request persists the play-phase
\* results, under any interleaving of the start requests of that round.
C1_StartPersistsOnce ==
    \A id \in DOMAIN rounds : Cardinality(StartsPersisted(id)) <= 1

\* C2: no response of the commit route or of the start route holds
\* serverSeed, and a response of the reveal route holds it only when the
\* status the request read was STARTED.
C2_SecretUntilReveal ==
    \A i \in DOMAIN reqs :
        /\ reqs[i].route \in {"commit", "start"}
              => "serverSeed" \notin DOMAIN reqs[i].response.body
        /\ reqs[i].route = "reveal" /\ "serverSeed" \in DOMAIN reqs[i].response.body
              => /\ reqs[i].round.status = "STARTED"
                 /\ reqs[i].roundId \in DOMAIN rounds

\* A reveal was answered with the secret, another reveal was refused on a
\* round still CREATED, and a start was answered with its results.
C2_Witness ==
    /\ \E i \in DOMAIN reqs :
          /\ reqs[i].route = "reveal"
          /\ reqs[i].response.status = 200
          /\ "serverSeed" \in DOMAIN reqs[i].response.body
    /\ \E i \in DOMAIN reqs :
          /\ reqs[i].route = "reveal"
          /\ reqs[i].round.status = "CREATED"
          /\ reqs[i].response.status = 400
    /\ \E i \in DOMAIN reqs :
          reqs[i].route = "start" /\ reqs[i].response.status = 200

\* The query the verifier sends for a stored round.
QueryOfRound(round) ==
    [serverSeed |-> round.serverSeed, clientSeed |-> round.clientSeed,
     nonce |-> round.nonce, dropColumn |-> DecimalText(round.dropColumn)]

\* C3: for every round the start route has persisted, the verify route
\* called with the round's stored serverSeed, nonce, clientSeed and
\* dropColumn succeeds and returns the stored commitHex, combinedSeed,
\* pegMapHash, binIndex and path.
C3_VerifyReproduces ==
    \A id \in DOMAIN rounds, v \in DOMAIN verified :
        (/\ rounds[id].status \in {"STARTED", "REVEALED"}
         /\ verified[v].query = QueryOfRound(rounds[id]))
        => /\ verified[v].response.status = 200
           /\ verified[v].response.body =
                 [commitHex |-> rounds[id].commitHex,
                  combinedSeed |-> rounds[id].combinedSeed,
                  pegMapHash |-> rounds[id].pegMapHash,
                  binIndex |-> rounds[id].binIndex,
                  path |-> rounds[id].pathJson]

\* C4: once a round is REVEALED no request writes the record again: no
\* start and no further reveal performs its update on a REVEALED round.
C4_RevealedFinal ==
    \A i \in DOMAIN reqs : reqs[i].overwrote # "REVEALED"

\* C5: serverSeed, nonce and commitHex of a round are the values written at
\* its creation, and commitHex is the digest of serverSeed ':' nonce.
C5_CommitmentBinding ==
    \A id \in DOMAIN rounds :
        /\ \E i \in DOMAIN reqs :
              /\ reqs[i].route = "commit"
              /\ reqs[i].roundId = id
              /\ rounds[id].serverSeed = reqs[i].data.serverSeed
              /\ rounds[id].nonce = reqs[i].data.nonce
              /\ rounds[id].commitHex = reqs[i].data.commitHex
              /\ rounds[id].commitHex = reqs[i].response.body.commitHex
        /\ rounds[id].commitHex =
              sha256(rounds[id].serverSeed \o <<58>> \o rounds[id].nonce)
        /\ rounds[id].serverSeed \in ServerSeeds
        /\ rounds[id].nonce \in Nonces

\* A round that was started and then revealed.
C5_Witness ==
    \E id \in DOMAIN rounds :
        /\ rounds[id].status = "REVEALED"
        /\ rounds[id].clientSeed # <<>>

(***************************************************************************)
(* The generator.                                                          *)
(***************************************************************************)
\* C6: for every seed passed to the constructor and after any number of
\* rand() calls the state is an unsigned 32-bit integer and is not zero.
C6_StateNonZeroUint32 ==
    gen # Idle => IsUint32(gen.state) /\ gen.state # <<0, 0>>

\* The generator constructed from seed 0 has made all its draws.
C6_Witness ==
    /\ gen # Idle
    /\ gen.seed # "NaN"
    /\ gen.seed = <<0, 0>>
    /\ gen.draws = MaxDraws

\* Bit i of the 32-bit word w, 0 outside 0..31.
WordBit(w, i) ==
    IF i \in 0..15 THEN Bit(w[2], i)
    ELSE IF i \in 16..31 THEN Bit(w[1], i - 16)
    ELSE 0

\* Bit i of the xorshift32 step of x: y = x ^ (x << 13), z = y ^ (y >>> 17),
\* n = z ^ (z << 5), each on 32 bits.
StepBitY(x, i) == (WordBit(x, i) + WordBit(x, i - 13)) % 2
StepBitZ(x, i) == (StepBitY(x, i) + (IF i + 17 <= 31 THEN StepBitY(x, i + 17) ELSE 0)) % 2
StepBitN(x, i) == (StepBitZ(x, i) + (IF i - 5 >= 0 THEN StepBitZ(x, i - 5) ELSE 0)) % 2

\* C7: each rand() call replaces the state x by the xorshift32 step of x,
\* and returns the new state over 2^32, a value in [0, 1).
C7_RandIsXorshiftStep ==
    (gen # Idle /\ gen.draws > 0)
    => /\ \A i \in 0..31 : WordBit(gen.state, i) = StepBitN(gen.before, i)
       /\ gen.value = gen.state
       /\ IsUint32(gen.value)

\* A draw taken from a state whose bit 31 is set and whose bit 31 is still
\* set after the first shift, the case where the kind of right shift matters.
C7_Witness ==
    /\ gen # Idle
    /\ gen.draws > 0
    /\ gen.before[1] >= 32768
    /\ StepBitY(gen.before, 31) = 1

(***************************************************************************)
(* seedPRNG.                                                               *)
(***************************************************************************)
\* The number written by the hexadecimal digits str[from..from + 3].
HexNumber4(str, from) ==
    HexVal(str[from]) * 4096 + HexVal(str[from + 1]) * 256
    + HexVal(str[from + 2]) * 16 + HexVal(str[from + 3])

\* C8: when seedPRNG succeeds, the state is the number written by the first
\* 8 hexadecimal characters (big-endian), a value of 0 replaced by 1.
C8_SeedIsFirstFourBytes ==
    (seeding # Idle /\ seeding.result.ok)
    => LET word == <<HexNumber4(seeding.input, 1), HexNumber4(seeding.input, 5)>>
       IN  seeding.result.state = IF word = <<0, 0>> THEN <<0, 1>> ELSE word

\* seedPRNG succeeded on a text that begins with "00000000": the state is 1;
\* the texts also hold one whose bytes differ from one another.
C8_Witness ==
    /\ seeding # Idle
    /\ seeding.result.ok
    /\ SubSeq(seeding.input, 1, 8) = <<48, 48, 48, 48, 48, 48, 48, 48>>
    /\ seeding.result.state = <<0, 1>>

\* The number of bytes Buffer.from(str, "hex") decodes: the leading pairs of
\* characters that are all hexadecimal digits.
DecodableBytes(str) ==
    Cardinality({k \in 1..(Len(str) \div 2) : \A j \in 1..(2 * k) : HexVal(str[j]) >= 0})

\* C9: seedPRNG fails for every text from which fewer than 4 bytes can be
\* decoded, and a failed call leaves no generator.
C9_ShortSeedFails ==
    seeding # Idle
    => /\ DecodableBytes(seeding.input) < 4 => ~seeding.result.ok
       /\ Len(seeding.input) < 8 => ~seeding.result.ok
       /\ ~seeding.result.ok => seeding.result.state = <<0, 0>>

\* seedPRNG failed on a text of 8 or more characters whose decodable
\* beginning is shorter than 4 bytes.
C9_Witness ==
    /\ seeding # Idle
    /\ Len(seeding.input) >= 8
    /\ DecodableBytes(seeding.input) < 4
    /\ ~seeding.result.ok

(***************************************************************************)
(* runPlinkoGame.                                                          *)
(***************************************************************************)
\* The number of right moves of a path.
RightMoves(path) == Cardinality({i \in 1..Len(path) : path[i] = "R"})

\* C10: the binIndex runPlinkoGame returns is the number of 'R' entries of
\* the path it returns, and lies in 0..12.
C10_BinIsRightMoves ==
    (game # Idle /\ game.status = "done")
    => /\ GameResult.binIndex = RightMoves(GameResult.path)
       /\ GameResult.binIndex \in 0..12
       /\ GameResult.binIndex =
             runPlinkoGame(game.seed, game.dropColumn).binIndex
       /\ GameResult.path = runPlinkoGame(game.seed, game.dropColumn).path

\* A game that returned with both left and right moves on its path.
C10_Witness ==
    /\ game # Idle
    /\ game.status = "done"
    /\ GameResult.binIndex \in 1..11

\* The generator state after n draws from the state seed.
Draw(seed, n) ==
    FoldRange(LAMBDA state10, g :
                  FoldRange(LAMBDA state, k : nextInt(state),
                            state10, 10 * g + 1, Min(10 * g + 10, n)),
              seed, 0, (n - 1) \div 10)

\* The decision at row r of a ball that made pos right moves so far, for
\* the draw value: 'L' when the draw is below the effective bias.
Decision(pegMap, dropColumn, r, pos, value) ==
    IF rndLessThanBias(value, pegMap[r + 1][Min(pos, r) + 1], dropColumn)
    THEN "L" ELSE "R"

\* C11: the path runPlinkoGame returns has exactly 12 entries, the r-th
\* being the decision taken at row r, the rows being processed in
\* increasing order, one decision per row.
C11_PathOneDecisionPerRow ==
    /\ (game # Idle /\ game.status = "path") => Len(game.path) = game.r
    /\ (game # Idle /\ game.status \in {"path", "done"})
       => \A r \in 0..(Len(game.path) - 1) :
             game.path[r + 1] =
                Decision(game.pegMap, game.dropColumn, r,
                         RightMoves(SubSeq(game.path, 1, r)),
                         Draw(game.seed, 78 + r + 1))
    /\ (game # Idle /\ game.status = "done")
       => /\ Len(GameResult.path) = 12
          /\ GameResult.path = runPlinkoGame(game.seed, game.dropColumn).path

\* A game that returned a path holding a left move after a right move.
C11_Witness ==
    /\ game # Idle
    /\ game.status = "done"
    /\ \E i \in 1..11 : game.path[i] = "R" /\ game.path[i + 1] = "L"

\* The board has rows 0..n-1 and row r has r + 1 entries.
Triangle(pegMap, n) ==
    /\ Len(pegMap) = n
    /\ \A r \in 0..(n - 1) : Len(pegMap[r + 1]) = r + 1

\* C12: the board runPlinkoGame returns has exactly 12 rows and row r has
\* exactly r + 1 entries; while it is built, the rows pushed so far do.
C12_BoardIsTriangle ==
    /\ (game # Idle /\ game.status = "pegs")
       => Triangle(game.pegMap, game.r) /\ Len(game.row) <= game.r
    /\ (game # Idle /\ game.status \in {"hash", "path", "done"})
       => /\ Triangle(game.pegMap, 12)
          /\ game.pegMap = runPlinkoGame(game.seed, game.dropColumn).pegMap

\* A game whose board is complete.
C12_Witness ==
    /\ game # Idle
    /\ game.status = "done"
    /\ Len(game.pegMap) = 12
    /\ Len(game.pegMap[12]) = 12

\* The effective bias at the row the game is about to resolve, in millionths.
EffectiveBias ==
    finalBias(biasOf(game.pegMap[game.r + 1][Min(game.pos, game.r) + 1],
                     leftBiasAdj(game.dropColumn)))

\* C13: at every row of path resolution the effective bias compared with
\* the draw lies in [0, 1], for every dropColumn.
C13_BiasInUnitInterval ==
    (game # Idle /\ game.status = "path")
    => /\ ~EffectiveBias.nan
       /\ EffectiveBias.value >= 0
       /\ EffectiveBias.value <= 1000000

\* C14: runPlinkoGame makes exactly 78 draws for the board, row by row,
\* computes the board hash with no draw, then makes exactly 12 draws for the
\* path, one per row: the generator state after k draws is the k-th state of
\* the stream, whatever the decisions and dropColumn, 90 draws in total.
C14_DrawOrder ==
    game # Idle
    => /\ game.state = Draw(game.seed, game.draws)
       /\ game.status = "pegs"
             => /\ game.draws = (game.r * (game.r + 1)) \div 2 + Len(game.row)
                /\ game.draws < 78
                /\ game.pegMapHash = <<>>
                /\ game.path = <<>>
       /\ game.status = "hash"
             => game.draws = 78 /\ game.pegMapHash = <<>> /\ game.path = <<>>
       /\ game.status = "path"
             => /\ game.draws = 78 + game.r
                /\ game.r < 12
                /\ game.pegMapHash = pegMapHashOf(game.pegMap)
       /\ game.status = "done"
             => /\ game.draws = 90
                /\ game.state = runPlinkoGame(game.seed, game.dropColumn).state
                /\ game.pegMapHash =
                      runPlinkoGame(game.seed, game.dropColumn).pegMapHash

\* A game that returned after a right move at its first row.
C14_Witness ==
    /\ game # Idle
    /\ game.status = "done"
    /\ game.draws = 90
    /\ game.path[1] = "R"

\* C15: two runs of runPlinkoGame from the same generator state with
\* different dropColumn values return the same pegMap and pegMapHash.
C15_BoardIgnoresColumn ==
    (game # Idle /\ game.status = "done")
    => \A other \in GameColumns :
          /\ runPlinkoGame(game.seed, other).pegMap = game.pegMap
          /\ runPlinkoGame(game.seed, other).pegMapHash = game.pegMapHash

\* A game that returned, for a column other than the middle one, with a
\* path that differs from the path of the middle column.
C15_Witness ==
    /\ game # Idle
    /\ game.status = "done"
    /\ game.dropColumn # Num(6)
    /\ game.path # runPlinkoGame(game.seed, Num(6)).path

(***************************************************************************)
(* The pipeline of the start and verify routes, run after run: each run    *)
(* seeds a generator object of its own and plays the game on it.           *)
(***************************************************************************)
\* Runs of the pipeline in one behaviour.
MaxRuns == 2

\* The draws of one game: one per peg of the board, then one per row.
GameDraws == (GAME_ROWS * (GAME_ROWS + 1)) \div 2 + GAME_ROWS

\* The values n calls of nextInt return on a generator in state.
DrawsOf(state, n) ==
    FoldRange(LAMBDA acc10, g :
                  FoldRange(LAMBDA acc, t :
                                Append(acc, nextInt(IF t = 1 THEN state
                                                    ELSE acc[t - 1])),
                            acc10, 10 * g + 1, Min(10 * g + 10, n)),
              <<>>, 0, (n - 1) \div 10)

\* A generator kept by the module: the object the first call made is
\* handed, as it is, to every later call.
newXorshift32Kept(heap, state) ==
    IF heap = <<>>
    THEN [heap |-> <<state>>, prng |-> 1]
    ELSE [heap |-> heap, prng |-> 1]

\* return new Xorshift32(seedInt): a new object joins the heap, state being
\* the state its constructor set; prng is the reference returned.
newXorshift32(heap, state) ==
    [heap |-> Append(heap, state), prng |-> Len(heap) + 1]

\* A route computes the combined seed and seeds a generator; the handler
\* runs these steps and the game without an await, so a run starts when
\* the runs before it have returned.
RunSeed ==
    /\ Len(runs.list) < MaxRuns
    /\ \A i \in DOMAIN runs.list : runs.list[i].status = "done"
    /\ \E serverSeed \in ServerSeeds, clientSeed \in ClientSeeds,
          nonce \in Nonces, dropColumn \in DropColumns :
          runs' =
             With(combinedSeedFromParts(serverSeed, clientSeed, nonce),
                  LAMBDA combinedSeed :
             With(newXorshift32(runs.heap, seedPRNG(combinedSeed).state),
                  LAMBDA made :
                 [heap |-> made.heap,
                  list |-> Append(runs.list,
                      [status |-> "seeded", serverSeed |-> serverSeed,
                       clientSeed |-> clientSeed, nonce |-> nonce,
                       dropColumn |-> dropColumn, combinedSeed |-> combinedSeed,
                       prng |-> made.prng, draws |-> <<>>, pegMap |-> <<>>,
                       pegMapHash |-> <<>>, binIndex |-> 0, path |-> <<>>])]))
    /\ UNCHANGED <<page, rounds, reqs, verified, gen, seeding, game>>

\* runPlinkoGame(prng, dropColumn) on the generator the run holds: the
\* draws advance that object.
RunGame ==
    /\ \E i \in DOMAIN runs.list :
          /\ runs.list[i].status = "seeded"
          /\ runs' =
                With(runs.heap[runs.list[i].prng], LAMBDA state :
                With(runPlinkoGame(state, Num(runs.list[i].dropColumn)),
                     LAMBDA result :
                    [heap |-> [runs.heap EXCEPT ![runs.list[i].prng] = result.state],
                     list |-> [runs.list EXCEPT ![i] =
                         [runs.list[i] EXCEPT
                             !.status = "done",
                             !.draws = DrawsOf(state, GameDraws),
                             !.pegMap = result.pegMap,
                             !.pegMapHash = result.pegMapHash,
                             !.binIndex = result.binIndex,
                             !.path = result.path]]]))
    /\ UNCHANGED <<page, rounds, reqs, verified, gen, seeding, game>>

NextRuns == RunSeed \/ RunGame

SpecRuns == Init /\ [][NextRuns]_vars

(***************************************************************************)
(* The routes: the pipeline of the start and verify routes.                *)
(***************************************************************************)
\* The start requests that computed a result.
StartsComputed ==
    {i \in DOMAIN reqs : reqs[i].route = "start" /\ reqs[i].data.status = "STARTED"}

\* The verify requests answered with a result.
VerifiesAnswered ==
    {v \in DOMAIN verified : verified[v].response.status = 200}

\* The verify request v has the inputs of the start request i.
SameInputs(i, v) ==
    /\ verified[v].query.serverSeed = reqs[i].round.serverSeed
    /\ verified[v].query.nonce = reqs[i].round.nonce
    /\ verified[v].query.clientSeed = reqs[i].data.clientSeed
    /\ parseInt(verified[v].query.dropColumn) = Num(reqs[i].data.dropColumn)

\* The runs of the pipeline that returned.
RunsDone == {i \in DOMAIN runs.list : runs.list[i].status = "done"}

\* The runs i and j had the same serverSeed, clientSeed, nonce and
\* dropColumn.
SameRunInputs(i, j) ==
    /\ runs.list[i].serverSeed = runs.list[j].serverSeed
    /\ runs.list[i].clientSeed = runs.list[j].clientSeed
    /\ runs.list[i].nonce = runs.list[j].nonce
    /\ runs.list[i].dropColumn = runs.list[j].dropColumn

\* C16: two runs of combinedSeedFromParts, seedPRNG and runPlinkoGame on the
\* same serverSeed, clientSeed, nonce and dropColumn give the same combined
\* seed, the same sequence of draws, the same pegMap, pegMapHash, binIndex
\* and path; no two runs hold the same generator object, and the draws of
\* every run are those of a generator fresh from its own combined seed.
C16_SameInputsSameOutputs ==
    /\ \A i \in DOMAIN runs.list, j \in DOMAIN runs.list :
          i # j => runs.list[i].prng # runs.list[j].prng
    /\ \A i \in RunsDone :
          /\ Len(runs.list[i].draws) = GameDraws
          /\ runs.list[i].draws[1] =
                nextInt(Xorshift32(<<HexNumber4(runs.list[i].combinedSeed, 1),
                                         HexNumber4(runs.list[i].combinedSeed, 5)>>))
          /\ runs.heap[runs.list[i].prng] = runs.list[i].draws[GameDraws]
    /\ \A i \in RunsDone, j \in RunsDone :
          SameRunInputs(i, j)
          => /\ runs.list[i].combinedSeed = runs.list[j].combinedSeed
             /\ runs.list[i].draws = runs.list[j].draws
             /\ runs.list[i].pegMap = runs.list[j].pegMap
             /\ runs.list[i].pegMapHash = runs.list[j].pegMapHash
             /\ runs.list[i].binIndex = runs.list[j].binIndex
             /\ runs.list[i].path = runs.list[j].path

\* Two runs on the same inputs returned, one after the other, each on its
\* own generator object, with a path that holds and advances.
C16_Witness ==
    \E i \in RunsDone, j \in RunsDone :
        /\ i < j
        /\ SameRunInputs(i, j)
        /\ Len(runs.heap) = 2
        /\ runs.list[j].binIndex \in 1..11

\* C17: the commitment of a round is the one published at its creation
\* whatever clientSeed is later sent to start, and the verify route returns
\* that commitment for the round's serverSeed and nonce whatever clientSeed
\* it is sent.
C17_CommitIgnoresClientSeed ==
    \A id \in DOMAIN rounds :
        /\ \E i \in DOMAIN reqs :
              /\ reqs[i].route = "commit"
              /\ reqs[i].roundId = id
              /\ reqs[i].response.body.commitHex = rounds[id].commitHex
        /\ \A v \in VerifiesAnswered :
              (/\ verified[v].query.serverSeed = rounds[id].serverSeed
               /\ verified[v].query.nonce = rounds[id].nonce)
              => verified[v].response.body.commitHex = rounds[id].commitHex

\* A round started with one clientSeed and a verify request answered for
\* its serverSeed and nonce with another clientSeed.
C17_Witness ==
    \E id \in DOMAIN rounds, v \in VerifiesAnswered :
        /\ rounds[id].status \in {"STARTED", "REVEALED"}
        /\ verified[v].query.serverSeed = rounds[id].serverSeed
        /\ verified[v].query.nonce = rounds[id].nonce
        /\ verified[v].query.clientSeed # rounds[id].clientSeed

\* C18: a dropColumn outside 0..12 is rejected: no start request computes a
\* result for it and no verify request is answered with a result for it.
C18_ColumnOutOfRangeRejected ==
    /\ \A i \in StartsComputed : reqs[i].data.dropColumn \in 0..12
    /\ \A v \in VerifiesAnswered :
          parseInt(verified[v].query.dropColumn).value \in 0..12

\* C19: an empty or missing secret, nonce or player value is rejected: no
\* round holds a result persisted for an empty clientSeed, and no verify
\* request with an empty or missing serverSeed, clientSeed or nonce is
\* answered with a result.
C19_EmptyInputRejected ==
    /\ \A id \in DOMAIN rounds :
          rounds[id].status \in {"STARTED", "REVEALED"}
          => rounds[id].clientSeed # <<>>
    /\ \A v \in VerifiesAnswered :
          \A name \in {"serverSeed", "clientSeed", "nonce"} :
              ~Falsy(verified[v].query, name)

\* The outputs of the start route.
StartOutputs ==
    {"roundId", "pegMapHash", "rows", "binIndex", "path", "payoutMultiplier"}

\* The record holds all the results of the data of a start request.
HoldsResults(round, data) ==
    /\ round.clientSeed = data.clientSeed
    /\ round.betCents = data.betCents
    /\ round.dropColumn = data.dropColumn
    /\ round.combinedSeed = data.combinedSeed
    /\ round.pegMapHash = data.pegMapHash
    /\ round.binIndex = data.binIndex
    /\ round.pathJson = data.pathJson
    /\ round.payoutMultiplier = data.payoutMultiplier

\* The placeholders the commit route creates a round with.
Placeholders ==
    [clientSeed |-> <<>>, betCents |-> 0, dropColumn |-> 0, combinedSeed |-> <<>>,
     pegMapHash |-> <<>>, binIndex |-> 0, pathJson |-> <<>>, payoutMultiplier |-> 0]

\* C20: a start request either persists the complete result in one update
\* and returns it, or fails, writes nothing and returns none of the outputs;
\* a round holds either no result or all the results of one start request.
C20_NoPartialResults ==
    /\ \A i \in DOMAIN reqs :
          reqs[i].route = "start"
          => /\ reqs[i].pc = "update"
                   => reqs[i].overwrote = "NONE" /\ reqs[i].response = NoResponse
             /\ (reqs[i].pc = "done" /\ reqs[i].response.status = 200)
                   => /\ reqs[i].overwrote # "NONE"
                      /\ DOMAIN reqs[i].response.body = StartOutputs
                      /\ reqs[i].response.body.pegMapHash = reqs[i].data.pegMapHash
                      /\ reqs[i].response.body.binIndex = reqs[i].data.binIndex
                      /\ reqs[i].response.body.path = reqs[i].data.pathJson
                      /\ Len(reqs[i].response.body.path) = 12
                      /\ reqs[i].response.body.payoutMultiplier =
                            reqs[i].data.payoutMultiplier
             /\ (reqs[i].pc = "done" /\ reqs[i].response.status # 200)
                   => /\ reqs[i].overwrote = "NONE"
                      /\ DOMAIN reqs[i].response.body = {"error"}
    /\ \A id \in DOMAIN rounds :
          /\ rounds[id].status = "CREATED"
                => /\ StartsPersisted(id) = {}
                   /\ HoldsResults(rounds[id], Placeholders)
          /\ rounds[id].status \in {"STARTED", "REVEALED"}
                => \E i \in StartsPersisted(id) :
                      HoldsResults(rounds[id], reqs[i].data)

\* A start request persisted its result and another one was refused.
C20_Witness ==
    /\ \E i \in DOMAIN reqs :
          /\ reqs[i].route = "start"
          /\ reqs[i].response.status = 200
    /\ \E i \in DOMAIN reqs :
          /\ reqs[i].route = "start"
          /\ reqs[i].response.status = 400
    /\ \E i \in DOMAIN reqs :
          /\ reqs[i].route = "start"
          /\ reqs[i].response.status = 404

(***************************************************************************)
(* The digests alone: the four functions that build the commitment and the *)
(* combined seed, applied to strings with and without ':'.                 *)
(***************************************************************************)
\* getCommitHex of fairness.ts
getCommitHex(serverSeed, nonce) == sha256(serverSeed \o Colon \o nonce)

\* getCombinedSeed of fairness.ts
getCombinedSeed(serverSeed, clientSeed, nonce) ==
    sha256(serverSeed \o Colon \o clientSeed \o Colon \o nonce)

\* Arguments of the calls: the reference vector, "a", "a:b", "c", "b:c",
\* "d" and the empty string.
DigestServerSeeds == {ReferenceServerSeed, <<97>>, <<97, 58, 98>>}

DigestClientSeeds == {ReferenceClientSeed, <<99>>, <<98, 58, 99>>, <<>>}

DigestNonces == {ReferenceNonce, <<99>>, <<98, 58, 99>>, <<100>>}

\* commitHexFromParts(serverSeed, nonce) or getCommitHex(serverSeed, nonce)
CommitHexCall ==
    /\ seeding = Idle
    /\ \E serverSeed \in DigestServerSeeds, nonce \in DigestNonces,
          fn \in {"commitHexFromParts", "getCommitHex"} :
          seeding' = [status |-> "digest", fn |-> fn,
                      parts |-> <<serverSeed, nonce>>,
                      str |-> CommitText(serverSeed, nonce),
                      digest |-> IF fn = "getCommitHex"
                                 THEN getCommitHex(serverSeed, nonce)
                                 ELSE commitHexFromParts(serverSeed, nonce)]
    /\ UNCHANGED <<runs, page, rounds, reqs, verified, gen, game>>

\* combinedSeedFromParts(serverSeed, clientSeed, nonce) or
\* getCombinedSeed(serverSeed, clientSeed, nonce)
CombinedSeedCall ==
    /\ seeding = Idle
    /\ \E serverSeed \in DigestServerSeeds, clientSeed \in DigestClientSeeds,
          nonce \in DigestNonces,
          fn \in {"combinedSeedFromParts", "getCombinedSeed"} :
          seeding' = [status |-> "digest", fn |-> fn,
                      parts |-> <<serverSeed, clientSeed, nonce>>,
                      str |-> CombinedText(serverSeed, clientSeed, nonce),
                      digest |-> IF fn = "getCombinedSeed"
                                 THEN getCombinedSeed(serverSeed, clientSeed, nonce)
                                 ELSE combinedSeedFromParts(serverSeed, clientSeed,
                                                            nonce)]
    /\ UNCHANGED <<runs, page, rounds, reqs, verified, gen, game>>

NextDigest == CommitHexCall \/ CombinedSeedCall

SpecDigest == Init /\ [][NextDigest]_vars

(***************************************************************************)
(* app/page.tsx: the game page of one page load, with the server routes it *)
(* calls.  A fetch call is "sent", then "arrived" at its route (req is the *)
(* request in reqs), then "settled" when the page has handled the          *)
(* response; it is "failed" when fetch rejected, before the request        *)
(* reached the server or while the server holds it (req is kept, and the   *)
(* route goes on with the request).                                        *)
(***************************************************************************)
\* Drops of the user in one page load.
MaxDrops == 2

\* Changes of the reduced-motion preference in one page load.
MaxChanges == 2

\* What the user can leave in the inputs of the page: the client seed and
\* the drop column.
PageClientSeeds == {ReferenceClientSeed}

PageDropColumns == {6, 13}

\* betAmount of the page.
PageBetCents == 100

\* A fetch call of the page, just made.  roundId, clientSeed, dropColumn and
\* prefersReducedMotion are the values the calling closure holds.
Call(route, roundId, clientSeed, dropColumn, reduced) ==
    [route |-> route, state |-> "sent", req |-> 0, roundId |-> roundId,
     clientSeed |-> clientSeed, dropColumn |-> dropColumn, reduced |-> reduced]

\* The page after a render: PlinkoBoard is rendered when gameResult &&
\* !prefersReducedMotion; mounting it starts the animation from the top and
\* unmounting it cancels the animation.
Rendered(p) ==
    IF p.gameResult /\ ~p.prefersReducedMotion
    THEN IF p.board = "none" THEN [p EXCEPT !.board = "running", !.ball = 0] ELSE p
    ELSE [p EXCEPT !.board = "none", !.ball = 0]

\* The calls of the page that wait in state for route.
CallsIn(route, state) ==
    {k \in DOMAIN page.calls :
        page.calls[k].route = route /\ page.calls[k].state = state}

\* The calls of the page whose request the server has answered.
CallsAnswered(route) ==
    {k \in CallsIn(route, "arrived") : reqs[page.calls[k].req].pc = "done"}

\* The page mounts: isLoading starts true, the reduced-motion hook reads the
\* media query, and the commit effect sends its request.
PageLoad ==
    /\ page = Idle
    /\ \E matches \in BOOLEAN :
          page' = [status |-> "loaded", roundId |-> 0, isLoading |-> TRUE,
                   gameResult |-> FALSE, prefersReducedMotion |-> matches,
                   board |-> "none", ball |-> 0, timers |-> 0, drops |-> 0,
                   changes |-> 0,
                   calls |-> <<Call("commit", 0, <<>>, 0, FALSE)>>]
    /\ UNCHANGED <<runs, rounds, reqs, verified, gen, seeding, game>>

\* The commit route handles the request of the page.
PageCommitArrives ==
    /\ page # Idle
    /\ \E k \in CallsIn("commit", "sent") :
          /\ \E serverSeed \in generateRandomString(32),
                nonce \in generateRandomString(8) :
                \E newRound \in {NewRound(serverSeed, nonce)} :
                   /\ rounds' = Append(rounds, newRound)
                   /\ reqs' = Append(reqs, CommitRequest(Len(rounds) + 1, newRound))
          /\ page' = [page EXCEPT !.calls[k].state = "arrived",
                                  !.calls[k].req = Len(reqs) + 1]
    /\ UNCHANGED <<runs, verified, gen, seeding, game>>

\* commitNewRound after its awaits: the round id is set when response.ok.
PageCommitResponse ==
    /\ page # Idle
    /\ \E k \in CallsAnswered("commit") :
          LET response == reqs[page.calls[k].req].response
          IN  page' = [page EXCEPT
                          !.calls[k].state = "settled",
                          !.roundId = IF response.status = 200
                                      THEN response.body.roundId ELSE page.roundId,
                          !.isLoading = FALSE]
    /\ UNCHANGED <<runs, rounds, reqs, verified, gen, seeding, game>>

\* handleDrop up to its fetch: the button and the space key are disabled
\* while isLoading, and the handler returns at once without a round id.
PageDrop ==
    /\ page # Idle
    /\ ~page.isLoading
    /\ page.roundId # 0
    /\ page.drops < MaxDrops
    /\ \E clientSeed \in PageClientSeeds, dropColumn \in PageDropColumns :
          page' = Rendered([page EXCEPT
                      !.isLoading = TRUE,
                      !.gameResult = FALSE,
                      !.drops = page.drops + 1,
                      !.calls = Append(page.calls,
                                       Call("start", page.roundId, clientSeed,
                                            dropColumn, page.prefersReducedMotion))])
    /\ UNCHANGED <<runs, rounds, reqs, verified, gen, seeding, game>>

\* The start route handles a request of the page, up to its update.
PageStartArrives ==
    /\ page # Idle
    /\ \E k \in CallsIn("start", "sent") :
          /\ reqs' = Append(reqs, StartRequest(page.calls[k].roundId,
                                               page.calls[k].clientSeed,
                                               PageBetCents,
                                               page.calls[k].dropColumn))
          /\ page' = [page EXCEPT !.calls[k].state = "arrived",
                                  !.calls[k].req = Len(reqs) + 1]
    /\ UNCHANGED <<runs, rounds, verified, gen, seeding, game>>

\* handleDrop after its awaits: on response.ok the result is set and, when
\* the closure holds prefersReducedMotion, a timeout is set for the reveal;
\* otherwise isLoading is reset.
PageStartResponse ==
    /\ page # Idle
    /\ \E k \in CallsAnswered("start") :
          LET response == reqs[page.calls[k].req].response
          IN  page' = IF response.status = 200
                      THEN Rendered([page EXCEPT
                               !.calls[k].state = "settled",
                               !.gameResult = TRUE,
                               !.timers = IF page.calls[k].reduced
                                          THEN page.timers + 1 ELSE page.timers])
                      ELSE [page EXCEPT !.calls[k].state = "settled",
                                        !.isLoading = FALSE]
    /\ UNCHANGED <<runs, rounds, reqs, verified, gen, seeding, game>>

\* The timeout of the reduced-motion path fires: handleReveal(roundId).
PageTimer ==
    /\ page # Idle
    /\ page.timers > 0
    /\ page' = [page EXCEPT
                   !.timers = page.timers - 1,
                   !.calls = Append(page.calls,
                                    Call("reveal", page.roundId, <<>>, 0, FALSE))]
    /\ UNCHANGED <<runs, rounds, reqs, verified, gen, seeding, game>>

\* A frame of the animation that takes the next decision of the path or,
\* after the last one, sees the ball off the canvas: the loop stops and
\* handleAnimationComplete calls handleReveal(roundId).
PageFrame ==
    /\ page # Idle
    /\ page.board = "running"
    /\ page' = IF page.ball < GAME_ROWS
               THEN [page EXCEPT !.ball = page.ball + 1]
               ELSE [page EXCEPT
                        !.board = "finished",
                        !.calls = IF page.roundId # 0
                                  THEN Append(page.calls,
                                              Call("reveal", page.roundId, <<>>,
                                                   0, FALSE))
                                  ELSE page.calls]
    /\ UNCHANGED <<runs, rounds, reqs, verified, gen, seeding, game>>

\* The reveal route handles a request of the page, up to its update.
PageRevealArrives ==
    /\ page # Idle
    /\ \E k \in CallsIn("reveal", "sent") :
          /\ reqs' = Append(reqs, RevealRequest(page.calls[k].roundId))
          /\ page' = [page EXCEPT !.calls[k].state = "arrived",
                                  !.calls[k].req = Len(reqs) + 1]
    /\ UNCHANGED <<runs, rounds, verified, gen, seeding, game>>

\* handleReveal after its awaits: isLoading is reset whatever the response.
PageRevealResponse ==
    /\ page # Idle
    /\ \E k \in CallsAnswered("reveal") :
          page' = [page EXCEPT !.calls[k].state = "settled", !.isLoading = FALSE]
    /\ UNCHANGED <<runs, rounds, reqs, verified, gen, seeding, game>>

\* fetch (or response.json()) rejects while the call is awaited, whether the
\* request has reached the server or not: the catch of commitNewRound,
\* handleDrop or handleReveal, each of which ends with isLoading reset.  A
\* request the server holds stays with the server.
PageFetchFails ==
    /\ page # Idle
    /\ \E k \in DOMAIN page.calls :
          /\ page.calls[k].state \in {"sent", "arrived"}
          /\ page' = [page EXCEPT !.calls[k].state = "failed", !.isLoading = FALSE]
    /\ UNCHANGED <<runs, rounds, reqs, verified, gen, seeding, game>>

\* The listener of useReducedMotion: the preference of the user changes.
PageMotionChange ==
    /\ page # Idle
    /\ page.changes < MaxChanges
    /\ page' = Rendered([page EXCEPT
                   !.prefersReducedMotion = ~page.prefersReducedMotion,
                   !.changes = page.changes + 1])
    /\ UNCHANGED <<runs, rounds, reqs, verified, gen, seeding, game>>

NextPage ==
    \/ PageLoad
    \/ PageCommitArrives
    \/ PageCommitResponse
    \/ PageDrop
    \/ PageStartArrives
    \/ StartUpdate
    \/ PageStartResponse
    \/ PageTimer
    \/ PageFrame
    \/ PageRevealArrives
    \/ RevealUpdate
    \/ PageRevealResponse
    \/ PageFetchFails
    \/ PageMotionChange

SpecPage == Init /\ [][NextPage]_vars

\* The server answers every request it received, the browser delivers every
\* response, fires every timeout and runs every animation frame; the user
\* and the network owe nothing.
SpecPageFair ==
    /\ SpecPage
    /\ WF_vars(PageCommitArrives) /\ WF_vars(PageCommitResponse)
    /\ WF_vars(PageStartArrives) /\ WF_vars(StartUpdate)
    /\ WF_vars(PageStartResponse) /\ WF_vars(PageTimer) /\ WF_vars(PageFrame)
    /\ WF_vars(PageRevealArrives) /\ WF_vars(RevealUpdate)
    /\ WF_vars(PageRevealResponse)

(***************************************************************************)
(* The verify route and the rounds table.                                  *)
(***************************************************************************)
\* C21: a GET /api/verify request, whatever its parameters and its outcome,
\* leaves every round record unchanged: a step that answers a verify
\* request changes no field of the rounds table.
C21_VerifyReadOnly ==
    [][Len(verified') > Len(verified) => rounds' = rounds]_vars

\* A verify request was answered while a round holds a result.
C21_Witness ==
    /\ verified # <<>>
    /\ \E id \in DOMAIN rounds : rounds[id].status \in {"STARTED", "REVEALED"}

(***************************************************************************)
(* The rule of path resolution.                                            *)
(***************************************************************************)
\* The draw value / 2^32 is below the bias (in millionths), compared as
\* exact numbers: floor(value * 10^6 / 2^32) < bias, false for NaN.
DrawBelow(value, bias) ==
    /\ ~bias.nan
    /\ (value[1] * 15625 + ((value[2] * 15625) \div Half)) \div 1024 < bias.value

\* The bias of the entry at index min(pos, r) of row r plus
\* (dropColumn - 6) * 0.01, clamped to [0, 1], in millionths.
ClampedBias(pegMap, dropColumn, r, pos) ==
    LET index == IF pos < r THEN pos ELSE r
        bias == IF dropColumn.nan THEN NaN
                ELSE Num(pegMap[r + 1][index + 1] + (dropColumn.value - 6) * 10000)
    IN  IF bias.nan THEN NaN
        ELSE IF bias.value < 0 THEN Num(0)
        ELSE IF bias.value > 1000000 THEN Num(1000000)
        ELSE bias

\* The draw value / 2^32 and the bias (in millionths) are the same number.
DrawEquals(value, bias) ==
    /\ ~bias.nan
    /\ value[2] = 0
    /\ value[1] % 1024 = 0
    /\ (value[1] \div 1024) * 15625 = bias.value

\* d < effectiveBias for the draw d = value / 2^32 and the effective bias
\* the code holds, a double: the draw is below the exact bias, or it equals
\* the exact bias and the double sum of the code lies above that
\* (BiasSumUp).  Where the draw equals the double, it is not below.
DrawBelowEffective(value, bias, dropColumn) ==
    \/ DrawBelow(value, bias)
    \/ /\ DrawEquals(value, bias)
       /\ <<value[1] \div 1024, dropColumn.value>> \in BiasSumUp

\* C22: every step of path resolution, at row r with pos advances so far,
\* takes one fresh draw d, selects the entry at index min(pos, r) of row r,
\* clamps its bias plus (dropColumn - 6) * 0.01 to [0, 1], and records 'L'
\* with pos unchanged when d is below that bias, 'R' with pos incremented by
\* exactly 1 otherwise; a draw equal to the bias advances.
C22_PathRule ==
    [][(game # Idle /\ game.status = "path")
       => LET d == nextInt(game.state)
              bias == ClampedBias(game.pegMap, game.dropColumn, game.r, game.pos)
              left == DrawBelowEffective(d, bias, game.dropColumn)
          IN  /\ game.r \in 0..11
              /\ game'.state = d
              /\ game'.r = game.r + 1
              /\ game'.path = Append(game.path, IF left THEN "L" ELSE "R")
              /\ game'.pos = IF left THEN game.pos ELSE game.pos + 1
              /\ DrawEquals(d, bias) /\ ~left
                 => game'.path[game.r + 1] = "R" /\ game'.pos = game.pos + 1]_vars

\* A row was just resolved, after earlier holds and advances, with a draw
\* equal to the bias of the entry at index min(pos, r), for a column that
\* moves the bias: the ball advanced.
C22_Witness ==
    /\ game # Idle
    /\ game.status = "path"
    /\ game.r = 4
    /\ game.pos \in 2..3
    /\ game.path[game.r] = "R"
    /\ game.dropColumn = Num(0)
    /\ DrawEquals(game.state,
                  ClampedBias(game.pegMap, game.dropColumn, game.r - 1,
                              game.pos - 1))

(***************************************************************************)
(* The reference vector of the generator and of the board.                 *)
(***************************************************************************)
\* One step of the decimal expansion of rem / 2^32: the next decimal and
\* the remainder.
DecimalStep(rem) ==
    LET lo == rem[2] * 10
        hi == rem[1] * 10 + (lo \div Half)
    IN  [digit |-> hi \div Half, rem |-> <<hi % Half, lo % Half>>]

\* The next five decimals of rem / 2^32, as a number, and the remainder.
Decimals5(rem) ==
    FoldRange(LAMBDA acc, k :
                  With(DecimalStep(acc.rem), LAMBDA s :
                      [n |-> 10 * acc.n + s.digit, rem |-> s.rem]),
              [n |-> 0, rem |-> rem], 1, 5)

\* parseFloat(num.toFixed(10)) for num = value / 2^32 < 1: the ten decimals
\* of num rounded half up, the first five and the last five.
ToFixed10(value) ==
    LET a == Decimals5(value)
        b == Decimals5(a.rem)
        c == DecimalStep(b.rem)
        lo == IF c.digit >= 5 THEN b.n + 1 ELSE b.n
    IN  IF lo = 100000 THEN <<a.n + 1, 0>> ELSE <<a.n, lo>>

\* C23: a generator seeded from the digest e1dddf77... gives first five
\* draws that round to 0.1106166649, 0.7625129214, 0.0439292176,
\* 0.4578678815 and 0.3438999297; the game run from that seed has row 0
\* entry 0 bias 0.422123, row 1 biases 0.552503 and 0.408786, row 2 entry 0
\* bias 0.491574 and, with dropColumn 6, binIndex 6.
C23_ReferenceGame ==
    (game # Idle /\ game.seed = ReferenceState)
    => /\ ReferenceState = <<57821, 57207>>
       /\ game.draws \in 1..5 => ToFixed10(game.state) = ReferenceDraws[game.draws]
       /\ Len(game.pegMap) >= 1 => game.pegMap[1][1] = 422123
       /\ Len(game.pegMap) >= 2 => game.pegMap[2] = <<552503, 408786>>
       /\ Len(game.pegMap) >= 3 => game.pegMap[3][1] = 491574
       /\ (game.status = "done" /\ game.dropColumn = Num(6))
             => GameResult.binIndex = 6

\* The game of the reference vector returned, for dropColumn 6.
C23_Witness ==
    /\ game # Idle
    /\ game.seed = ReferenceState
    /\ game.status = "done"
    /\ game.dropColumn = Num(6)
    /\ GameResult.binIndex = 6

(***************************************************************************)
(* The digests of the commitment and of the combined seed.                 *)
(***************************************************************************)
\* The parts one after the other, a ':' before every part but the first.
ColonJoined(parts) ==
    FoldRange(LAMBDA str, i : IF i = 1 THEN parts[i] ELSE str \o <<58>> \o parts[i],
              <<>>, 1, Len(parts))

\* C24: the commitment is the SHA-256 hex digest of serverSeed ':' nonce
\* and the combined seed is the SHA-256 hex digest of serverSeed ':'
\* clientSeed ':' nonce; for the reference serverSeed b2a5f3f3...ffeeddcc,
\* nonce 42 and clientSeed candidate-hello they are bb9acdc6...451a6b34 and
\* e1dddf77...406c07e0.
C24_ReferenceDigests ==
    (seeding # Idle /\ seeding.status = "digest")
    => /\ seeding.str = ColonJoined(seeding.parts)
       /\ seeding.digest = Sha256Digest(ColonJoined(seeding.parts))
       /\ Len(seeding.digest) = 64
       /\ seeding.parts = <<ReferenceServerSeed, ReferenceNonce>>
             => seeding.digest = ReferenceCommitHex
       /\ seeding.parts = <<ReferenceServerSeed, ReferenceClientSeed, ReferenceNonce>>
             => seeding.digest = ReferenceCombinedSeed

\* combinedSeedFromParts returned the combined seed of the reference vector.
C24_Witness ==
    /\ seeding # Idle
    /\ seeding.status = "digest"
    /\ seeding.fn = "combinedSeedFromParts"
    /\ seeding.parts = <<ReferenceServerSeed, ReferenceClientSeed, ReferenceNonce>>
    /\ seeding.digest = ReferenceCombinedSeed

(***************************************************************************)
(* The payout of a round.                                                  *)
(***************************************************************************)
\* The payout multipliers of the bins 0..12, in tenths.
Multipliers == <<100, 50, 20, 15, 10, 5, 2, 5, 10, 15, 20, 50, 100>>

\* C25: after every successful start the payoutMultiplier stored and
\* returned is the entry of PAYOUT_MAP at the stored binIndex, which is
\* always in 0..12 so that the fallback 0 is never used, and PAYOUT_MAP is
\* symmetric: the entries of bins i and 12 - i are equal.
C25_PayoutOfBin ==
    /\ \A i \in 0..12 : PAYOUT_MAP[i + 1] = PAYOUT_MAP[12 - i + 1]
    /\ PAYOUT_MAP = Multipliers
    /\ \A i \in DOMAIN reqs :
          (reqs[i].route = "start" /\ reqs[i].response.status = 200)
          => /\ reqs[i].response.body.binIndex \in 0..12
             /\ reqs[i].response.body.payoutMultiplier =
                   Multipliers[reqs[i].response.body.binIndex + 1]
             /\ reqs[i].response.body.payoutMultiplier # 0
    /\ \A id \in DOMAIN rounds :
          rounds[id].status \in {"STARTED", "REVEALED"}
          => /\ rounds[id].binIndex \in 0..12
             /\ rounds[id].payoutMultiplier = Multipliers[rounds[id].binIndex + 1]
             /\ rounds[id].payoutMultiplier # 0

\* A start request answered with a bin that is not the middle one.
C25_Witness ==
    \E i \in DOMAIN reqs :
        /\ reqs[i].route = "start"
        /\ reqs[i].response.status = 200
        /\ reqs[i].response.body.binIndex # 6
        /\ rounds[reqs[i].roundId].binIndex = reqs[i].response.body.binIndex

(***************************************************************************)
(* The bounds of path resolution.                                          *)
(***************************************************************************)
\* C26: in calculatePath, at the start of every row r the counter pos is in
\* 0..r, so that min(pos, r) is pos and is an index of row r, which has
\* r + 1 entries: no access outside the board happens.
C26_PosWithinRow ==
    /\ (game # Idle /\ game.status = "path")
       => /\ game.pos \in 0..game.r
          /\ game.pos = RightMoves(game.path)
          /\ (IF game.pos < game.r THEN game.pos ELSE game.r) = game.pos
          /\ game.r + 1 \in DOMAIN game.pegMap
          /\ Len(game.pegMap[game.r + 1]) = game.r + 1
          /\ game.pos + 1 \in DOMAIN game.pegMap[game.r + 1]
    /\ (game # Idle /\ game.status = "done") => game.pos \in 0..12

\* A row is about to be resolved after an advance at every row before it:
\* pos is the last index of the row.
C26_Witness ==
    /\ game # Idle
    /\ game.status = "path"
    /\ game.r = 11
    /\ game.pos = game.r

\* C27: every bias stored on the board lies in [0.4, 0.6], the bias of the
\* smallest and of the largest draw included, so that for every dropColumn
\* in 0..12 the adjusted bias lies in [0.34, 0.66] and the clamp to [0, 1]
\* leaves it as it is.
C27_BiasRange ==
    /\ LeftBias(<<0, 1>>) = 400000
    /\ LeftBias(<<Half - 1, Half - 1>>) = 600000
    /\ game # Idle
       => /\ \A r \in DOMAIN game.pegMap : \A k \in DOMAIN game.pegMap[r] :
                /\ game.pegMap[r][k] \in 400000..600000
                /\ \A c \in 0..12 :
                      LET bias == biasOf(game.pegMap[r][k], leftBiasAdj(Num(c)))
                      IN  /\ bias = Num(game.pegMap[r][k] + (c - 6) * 10000)
                          /\ bias.value \in 340000..660000
                          /\ finalBias(bias) = bias
          /\ \A k \in DOMAIN game.row : game.row[k] \in 400000..600000

\* A game on a complete board resolved a row for the leftmost column.
C27_Witness ==
    /\ game # Idle
    /\ game.status = "path"
    /\ game.r >= 1
    /\ game.dropColumn = Num(0)
    /\ Len(game.pegMap) = 12

(***************************************************************************)
(* The encoding of the parts of a digest.                                  *)
(***************************************************************************)
\* C28: the ':'-joined text fed to the digest is injective: two distinct
\* triples (serverSeed, clientSeed, nonce) give distinct texts in
\* combinedSeedFromParts and two distinct pairs (serverSeed, nonce) give
\* distinct texts in commitHexFromParts.
C28_EncodingInjective ==
    (seeding # Idle /\ seeding.status = "digest")
    => /\ Len(seeding.parts) = 3
             => \A s \in DigestServerSeeds, c \in DigestClientSeeds,
                   n \in DigestNonces :
                   <<s, c, n>> # seeding.parts
                   => /\ CombinedText(s, c, n) # seeding.str
                      /\ combinedSeedFromParts(s, c, n) # seeding.digest
       /\ Len(seeding.parts) = 2
             => \A s \in DigestServerSeeds, n \in DigestNonces :
                   <<s, n>> # seeding.parts
                   => /\ CommitText(s, n) # seeding.str
                      /\ commitHexFromParts(s, n) # seeding.digest

(***************************************************************************)
(* The game page.                                                          *)
(***************************************************************************)
\* C29: after a drop whose start request succeeded (the page holds its
\* result and is loading), the page eventually leaves the loading state,
\* under every ordering of the start response, the animation frames, the
\* changes of the reduced-motion preference and the reveal response.
C29_LoadingEnds ==
    (page # Idle /\ page.gameResult /\ page.isLoading)
    ~> (page # Idle /\ ~page.isLoading)

\* The start calls of the page whose request reached the server.
StartsArrived ==
    {k \in DOMAIN page.calls :
        page.calls[k].route = "start" /\ page.calls[k].req # 0}

\* The start calls of the page the server accepted: past the status check.
StartsAccepted ==
    {k \in StartsArrived :
        \/ reqs[page.calls[k].req].pc = "update"
        \/ reqs[page.calls[k].req].response.status = 200}

\* C30: the page gets its round id once, from the commit request it sends
\* on mount, and never renews it: every start and reveal request carries
\* that id, the server accepts at most one drop per page load, a reveal
\* request is sent only after the start request succeeded, and every drop
\* after the accepted one is rejected by the start route.
C30_OneRoundPerLoad ==
    page # Idle
    => /\ Len(rounds) <= 1
       /\ Cardinality(CallsIn("commit", "sent") \cup CallsIn("commit", "arrived")
                      \cup CallsIn("commit", "settled")
                      \cup CallsIn("commit", "failed")) = 1
       /\ page.roundId # 0 => (page.roundId = 1 /\ CallsIn("commit", "settled") = {1})
       /\ \A k \in DOMAIN page.calls :
             page.calls[k].route \in {"start", "reveal"}
             => page.calls[k].roundId = page.roundId /\ page.roundId # 0
       /\ Cardinality(StartsAccepted) <= 1
       /\ \A k \in DOMAIN page.calls :
             page.calls[k].route = "reveal"
             => \E j \in 1..(k - 1) :
                   /\ j \in StartsAccepted
                   /\ page.calls[j].state = "settled"
                   /\ reqs[page.calls[j].req].response.status = 200
       /\ \A j \in StartsAccepted : \A k \in StartsArrived :
             k > j => reqs[page.calls[k].req].response.status = 400

====
